---- MODULE Spec2Model ----
(***************************************************************************)
(* The generation pipeline of the multi-scene video generator: the session *)
(* store (SessionManager), the bounded retry wrapper (withRetry), the      *)
(* error classifier and recovery strategies (errorHandler) and the stage   *)
(* state machine (VideoGeneratorService) with its collaborators.           *)
(*                                                                         *)
(* A message text is modelled by the set of the notable substrings it      *)
(* contains (the substrings the classifier, the recovery strategies and     *)
(* the validators' formatted numbers can produce).  An optional value is a *)
(* set with at most one element: {} is undefined.                          *)
(***************************************************************************)
EXTENDS Integers, Sequences, FiniteSets, TLC

\* ------------------------------------------------------------------ bounds

\* Largest sceneCount explored (the route admits 1..config.maxScenes).
SceneBound == 2

\* Failing collaborator invocations injected into one request.
MaxFaults == 2

\* Largest maxAttempts explored for withRetry on its own.
MaxAttemptsBound == 3

\* Largest config.sceneDurationSeconds explored, in seconds.
DurationBound == 10

\* ------------------------------------------------------------ raw errors

\* What a collaborator throws: the JS class, error.code, error.response.status
\* (0: no response) and the message.
RawError(cls, code, status, msg) ==
    [cls |-> cls, code |-> code, status |-> status, msg |-> msg]

\* The value an operation resolves with, in the shape of an outcome.
OkOutcome == RawError("ok", "none", 200, {})

\* lastError before any catch.
UndefinedError == RawError("undefined", "none", 0, {})

\* An HTTP 401 from a vendor.
ErrUnauthorized == RawError("Error", "none", 401, {"401"})

\* An HTTP 503 from a vendor (the client puts the status into the message).
ErrUnavailable == RawError("Error", "none", 503, {"503"})

\* A socket timeout.
ErrTimedOut == RawError("Error", "ETIMEDOUT", 0, {"timeout"})

\* The disk is full.
ErrNoSpace == RawError("Error", "ENOSPC", 0, {"ENOSPC"})

\* A missing file.
ErrNoEntry == RawError("Error", "ENOENT", 0, {"ENOENT"})

\* An AuthenticationError thrown by a caller's operation.
ErrAuthClass == RawError("AuthenticationError", "none", 0, {"Authentication failed"})

\* A ValidationError thrown by a caller's operation.
ErrValidationClass == RawError("ValidationError", "none", 0, {"invalid"})

\* ------------------------------------------------------------- withRetry

DefaultRetryable(e) ==
    \/ e.code = "ECONNRESET" \/ e.code = "ETIMEDOUT"
    \/ e.status >= 500
    \/ e.status = 429

OpenAIRetryable(e) ==
    \/ e.status = 429
    \/ e.status >= 500
    \/ e.code = "ECONNRESET"

ReplicateRetryable(e) ==
    \/ e.status = 429
    \/ e.status >= 500
    \/ e.status = 503

ElevenLabsRetryable(e) ==
    \/ e.status = 429
    \/ e.status >= 500

\* opts.retryableErrors ? opts.retryableErrors(error) : true.  "all" is a
\* caller's predicate that accepts every error; "none" is no predicate.
IsRetryable(pred, e) ==
    CASE pred = "default" -> DefaultRetryable(e)
      [] pred = "openai" -> OpenAIRetryable(e)
      [] pred = "replicate" -> ReplicateRetryable(e)
      [] pred = "elevenlabs" -> ElevenLabsRetryable(e)
      [] pred = "all" -> TRUE
      [] pred = "none" -> TRUE

RetryPredicates == {"default", "openai", "replicate", "elevenlabs", "all", "none"}

\* multiplier is in tenths (20 is x2, 15 is x1.5).
DEFAULT_RETRY_OPTIONS ==
    [maxAttempts |-> 3, baseDelayMs |-> 1000, maxDelayMs |-> 30000,
     backoffMultiplier |-> 20, retryableErrors |-> "default"]

\* The image policy with two attempts instead of three.
ReplicateTwoAttempts ==
    [DEFAULT_RETRY_OPTIONS EXCEPT !.maxAttempts = 2, !.baseDelayMs = 5000,
        !.maxDelayMs = 60000, !.retryableErrors = "replicate"]

REPLICATE_RETRY_OPTIONS ==
    [DEFAULT_RETRY_OPTIONS EXCEPT !.maxAttempts = 3, !.baseDelayMs = 5000,
        !.maxDelayMs = 60000, !.retryableErrors = "replicate"]

KLING_RETRY_OPTIONS ==
    [DEFAULT_RETRY_OPTIONS EXCEPT !.maxAttempts = 3, !.baseDelayMs = 3000,
        !.maxDelayMs = 10000, !.backoffMultiplier = 15]

MUSIC_RETRY_OPTIONS ==
    [DEFAULT_RETRY_OPTIONS EXCEPT !.maxAttempts = 3, !.baseDelayMs = 2000,
        !.maxDelayMs = 10000, !.backoffMultiplier = 20]

\* The loop with the bound attempt < maxAttempts: one attempt too few.
RECURSIVE RetryLoopShort(_, _, _, _)
RetryLoopShort(opts, outcomes, attempt, lastError) ==
    IF attempt >= opts.maxAttempts
    THEN [ok |-> FALSE, error |-> lastError, calls |-> attempt - 1]
    ELSE IF outcomes[attempt].cls = "ok"
         THEN [ok |-> TRUE, error |-> UndefinedError, calls |-> attempt]
         ELSE IF \/ ~IsRetryable(opts.retryableErrors, outcomes[attempt])
                 \/ attempt = opts.maxAttempts
              THEN [ok |-> FALSE, error |-> outcomes[attempt], calls |-> attempt]
              ELSE RetryLoopShort(opts, outcomes, attempt + 1, outcomes[attempt])

\* The loop of withRetry from `attempt` on: outcomes[k] is what the k-th
\* invocation of the operation does.  calls is the number of invocations.
RECURSIVE RetryLoop(_, _, _, _)
RetryLoop(opts, outcomes, attempt, lastError) ==
    IF attempt > opts.maxAttempts
    THEN [ok |-> FALSE, error |-> lastError, calls |-> attempt - 1]
    ELSE IF outcomes[attempt].cls = "ok"
         THEN [ok |-> TRUE, error |-> UndefinedError, calls |-> attempt]
         ELSE IF \/ ~IsRetryable(opts.retryableErrors, outcomes[attempt])
                 \/ attempt = opts.maxAttempts
              THEN [ok |-> FALSE, error |-> outcomes[attempt], calls |-> attempt]
              ELSE RetryLoop(opts, outcomes, attempt + 1, outcomes[attempt])

WithRetryShort(opts, outcomes) == RetryLoopShort(opts, outcomes, 1, UndefinedError)

WithRetry(opts, outcomes) == RetryLoop(opts, outcomes, 1, UndefinedError)

\* --------------------------------------------------------- error handler

AppError(cls, msg, statusCode, retryable, service) ==
    [cls |-> cls, msg |-> msg, statusCode |-> statusCode,
     retryable |-> retryable, service |-> service]

ServiceUnavailableError(service) ==
    AppError("ServiceUnavailableError", {"unavailable"}, 503, TRUE, "")

RateLimitError(service) ==
    AppError("RateLimitError", {"Rate limit", "limit"}, 429, TRUE, "")

ResourceNotFoundError ==
    AppError("ResourceNotFoundError", {"not found"}, 404, FALSE, "")

ProcessingTimeoutError ==
    AppError("ProcessingTimeoutError", {"timeout"}, 408, TRUE, "")

AppErrorClasses ==
    {"AppError", "ValidationError", "ServiceUnavailableError", "RateLimitError",
     "AuthenticationError", "ResourceNotFoundError", "ProcessingTimeoutError"}

\* handleServiceError: the first rule that matches, in the order of the code.
HandleServiceError(error, ctxService) ==
    IF error.code = "insufficient_quota" THEN ServiceUnavailableError("OpenAI")
    ELSE IF error.code = "rate_limit_exceeded" THEN RateLimitError("OpenAI")
    ELSE IF "prediction failed" \in error.msg
        THEN ServiceUnavailableError("Kling Video Generation")
    ELSE IF "quota" \in error.msg THEN ServiceUnavailableError("ElevenLabs")
    ELSE IF error.code = "ENOTFOUND" \/ error.code = "ECONNREFUSED"
        THEN ServiceUnavailableError(ctxService)
    ELSE IF error.code = "ETIMEDOUT" \/ "timeout" \in error.msg
        THEN ProcessingTimeoutError
    ELSE IF "ffmpeg" \in error.msg \/ "ffprobe" \in error.msg
        THEN AppError("AppError", {"Video processing failed"}, 500, TRUE, "")
    ELSE IF error.code = "ENOENT" THEN ResourceNotFoundError
    ELSE IF error.code = "EACCES" \/ error.code = "EPERM"
        THEN AppError("AppError", {"permission denied"}, 500, FALSE, "")
    ELSE IF error.code = "ENOSPC"
        THEN AppError("AppError", {"disk space"}, 507, FALSE, "")
    ELSE IF \/ "502" \in error.msg \/ "503" \in error.msg
            \/ "504" \in error.msg \/ "temporary" \in error.msg
        THEN AppError("AppError", error.msg, 503, TRUE, ctxService)
    ELSE AppError("AppError", error.msg, 500, FALSE, ctxService)

\* error instanceof AppError ? error : handleServiceError(error, context).
\* retryable is what the constructor of the error's class sets.
ToAppError(error, ctxService) ==
    IF error.cls \in AppErrorClasses
    THEN AppError(error.cls, error.msg, error.status,
                  error.cls \in {"ServiceUnavailableError", "RateLimitError",
                                 "ProcessingTimeoutError"}, "")
    ELSE HandleServiceError(error, ctxService)

ShouldRetry(error, attempt, maxRetries) ==
    IF attempt >= maxRetries THEN FALSE
    ELSE IF ~error.retryable THEN FALSE
    ELSE IF error.cls = "ValidationError" THEN FALSE
    ELSE IF error.cls = "AuthenticationError" THEN FALSE
    ELSE TRUE

\* recoveryStrategies[i].canRecover
CanRecover(strategy, error) ==
    CASE strategy = "cleanup-temp-files" ->
            "disk space" \in error.msg \/ "ENOSPC" \in error.msg
      [] strategy = "fallback-generation" ->
            error.cls = "ServiceUnavailableError" /\ error.service = "video"
      [] strategy = "reduce-quality" -> error.cls = "ProcessingTimeoutError"

RecoveryStrategies == <<"cleanup-temp-files", "fallback-generation", "reduce-quality">>

\* attemptRecovery: the recover step of every strategy is a log line, so the
\* first strategy that can recover reports success.
AttemptRecovery(error) ==
    \E i \in DOMAIN RecoveryStrategies : CanRecover(RecoveryStrategies[i], error)

\* ------------------------------------------------------------- requests

GenerationRequest(n, voiceover, music, options) ==
    [sceneCount |-> n, includeVoiceover |-> voiceover, includeMusic |-> music,
     imageOptions |-> options]

\* The requests explored: every scene count, with no audio and no image
\* options, with a voiceover and nano-banana without the anchor, and with
\* music and ideogram with the anchor.  imageOptions is optional.
Requests ==
    UNION {
        { GenerationRequest(n, FALSE, FALSE, {}),
          GenerationRequest(n, TRUE, FALSE,
            {[provider |-> "nano-banana", includeOriginalAnchor |-> FALSE]}),
          GenerationRequest(n, FALSE, TRUE,
            {[provider |-> "ideogram", includeOriginalAnchor |-> TRUE]}) }
        : n \in 1..SceneBound }

\* session.request.imageOptions || { provider: 'nano-banana', ..., includeOriginalAnchor: true }
EffectiveImageOptions(req) ==
    IF req.imageOptions = {}
    THEN [provider |-> "nano-banana", includeOriginalAnchor |-> TRUE]
    ELSE CHOOSE o \in req.imageOptions : TRUE

\* ---------------------------------------------------------------- paths

Path(kind, id, n) == [kind |-> kind, sid |-> id, n |-> n]

\* The uploaded character image.
UploadPath == Path("upload", 0, 0)

\* path.join(config.imagesDir, sessionId, `scene-${sceneNumber}.png`)
SceneImagePath(id, n) == Path("image", id, n)

\* path.join(videosDir, `scene_${i + 1}.mp4`)
SceneVideoPath(id, n) == Path("video", id, n)

MusicPath(id) == Path("music", id, 0)

MergedPath(id) == Path("merged", id, 0)

FinalPath(id) == Path("final", id, 0)

\* -------------------------------------------------------- SessionManager

\* The stage list createSession builds.
InitialStages(req) ==
    LET names == <<"prompts", "images", "videos">>
                 \o (IF req.includeVoiceover \/ req.includeMusic
                     THEN <<"audio">> ELSE <<>>)
                 \o <<"merge">>
    IN [i \in DOMAIN names |->
            [stage |-> names[i], status |-> "pending", message |-> "",
             startTime |-> {}, endTime |-> {}, error |-> {}]]

NewSession(id, req, imagePath, timestamp) ==
    [sessionId |-> id, request |-> req, characterImagePath |-> imagePath,
     status |-> "pending", stages |-> InitialStages(req), currentStage |-> {},
     createdAt |-> timestamp, updatedAt |-> timestamp, error |-> {},
     finalVideoPath |-> {}]

\* createSession with an id derived from the request instead of a fresh
\* one: the session of a restart takes the place of the first session.
CreateSessionSameId(store, id, req, imagePath, timestamp) ==
    (1 :> NewSession(1, req, imagePath, timestamp)) @@ store

\* sessions.set(sessionId, session)
CreateSession(store, id, req, imagePath, timestamp) ==
    (id :> NewSession(id, req, imagePath, timestamp)) @@ store

\* updateSessionStatus writing the status into every session of the store.
UpdateSessionStatusAll(store, id, status, error, timestamp) ==
    IF id \notin DOMAIN store THEN store
    ELSE [k \in DOMAIN store |->
            [store[k] EXCEPT !.status = status, !.updatedAt = timestamp,
                             !.error = IF error = {} THEN @ ELSE error]]

\* error is optional: a falsy error leaves session.error alone.
UpdateSessionStatus(store, id, status, error, timestamp) ==
    IF id \notin DOMAIN store THEN store
    ELSE [store EXCEPT ![id] =
            [@ EXCEPT !.status = status, !.updatedAt = timestamp,
                      !.error = IF error = {} THEN @ ELSE error]]

StageIndex(session, stage) ==
    IF \E i \in DOMAIN session.stages : session.stages[i].stage = stage
    THEN CHOOSE i \in DOMAIN session.stages : session.stages[i].stage = stage
    ELSE 0

\* The timestamps with startTime stamped by every 'processing' write.
UpdateStageRecordRestamp(st, status, message, error, timestamp) ==
    [st EXCEPT !.status = status, !.message = message, !.error = error,
               !.startTime = IF status = "processing" THEN {timestamp} ELSE @,
               !.endTime = IF status = "completed" \/ status = "error"
                           THEN {timestamp} ELSE @]

UpdateStageRecord(st, status, message, error, timestamp) ==
    [st EXCEPT !.status = status, !.message = message, !.error = error,
               !.startTime = IF status = "processing" /\ @ = {}
                             THEN {timestamp} ELSE @,
               !.endTime = IF ~(status = "processing" /\ st.startTime = {})
                              /\ (status = "completed" \/ status = "error")
                           THEN {timestamp} ELSE @]

UpdateStageStatus(store, id, stage, status, message, error, timestamp) ==
    IF id \notin DOMAIN store THEN store
    ELSE IF StageIndex(store[id], stage) = 0 THEN store
    ELSE LET s == store[id]
             i == StageIndex(s, stage)
             first == status = "processing" /\ s.stages[i].startTime = {}
             done == ~first /\ status \in {"completed", "error"}
         IN [store EXCEPT ![id] =
                [s EXCEPT
                    !.stages[i] =
                        UpdateStageRecord(@, status, message, error, timestamp),
                    !.currentStage =
                        IF first THEN {stage}
                        ELSE IF done /\ @ = {stage} THEN {}
                        ELSE @,
                    !.updatedAt = timestamp]]

\* updateSessionFinalVideo that touches updatedAt and forgets the path.
UpdateSessionFinalVideoUnset(store, id, videoPath, timestamp) ==
    IF id \notin DOMAIN store THEN store
    ELSE [store EXCEPT ![id] = [@ EXCEPT !.updatedAt = timestamp]]

UpdateSessionFinalVideo(store, id, videoPath, timestamp) ==
    IF id \notin DOMAIN store THEN store
    ELSE [store EXCEPT ![id] =
            [@ EXCEPT !.finalVideoPath = {videoPath}, !.updatedAt = timestamp]]

\* getSessionProgress counting every stage that has left 'pending'.
GetSessionProgressStarted(store, id) ==
    IF id \notin DOMAIN store THEN 0
    ELSE LET total == Len(store[id].stages)
             started == Cardinality({i \in DOMAIN store[id].stages :
                              store[id].stages[i].status # "pending"})
         IN (200 * started + total) \div (2 * total)

\* Math.round((completedStages / totalStages) * 100)
GetSessionProgress(store, id) ==
    IF id \notin DOMAIN store THEN 0
    ELSE LET total == Len(store[id].stages)
             completed == Cardinality({i \in DOMAIN store[id].stages :
                                store[id].stages[i].status = "completed"})
         IN (200 * completed + total) \div (2 * total)

\* The checkpoint document artifacts.json; each field is optional.
EmptyArtifacts ==
    [prompts |-> {}, imagePaths |-> {}, videoPaths |-> {}, audioPaths |-> {},
     finalVideoPath |-> {}]

\* The write of the videos stage leaving out the image paths.
SaveSessionArtifactsNoImages(docs, id, content, written) ==
    IF written
    THEN [docs EXCEPT ![id] =
            {IF content.videoPaths # {}
             THEN [content EXCEPT !.imagePaths = {}]
             ELSE content}]
    ELSE docs

\* saveSessionArtifacts: the write replaces the document; a failed write is
\* logged and swallowed and leaves the document as it was.
SaveSessionArtifacts(docs, id, content, written) ==
    IF written THEN [docs EXCEPT ![id] = {content}] ELSE docs

\* ------------------------------------------------------- collaborators

\* maxRetries of executeWithRetry.
StageMaxRetries == 3

\* Does the decimal text of n contain the three digits d (100 <= d <= 999)?
RECURSIVE ContainsDigits(_, _)
ContainsDigits(n, d) ==
    IF n < 100 THEN FALSE
    ELSE n % 1000 = d \/ ContainsDigits(n \div 10, d)

\* The notable substrings of the decimal text of n.
NumberText(n) ==
    {t \in {"502", "503", "504"} :
        \/ t = "502" /\ ContainsDigits(n, 502)
        \/ t = "503" /\ ContainsDigits(n, 503)
        \/ t = "504" /\ ContainsDigits(n, 504)}

\* A number whose decimal text the classifier takes for an HTTP status.
StatusLikeNumber == 503

\* What the prompt generator answers: the number of scene entries, the
\* sceneNumber the reply gives to its first entry with an empty image or
\* video prompt (0: no such entry) and whether a music prompt is present.
PromptReplies(req) ==
    [count : {req.sceneCount, req.sceneCount + 1, StatusLikeNumber},
     emptyEntry : {0, 1, StatusLikeNumber},
     music : IF req.includeMusic THEN BOOLEAN ELSE {FALSE}]

\* The validation of OpenAIService.generatePrompts: the outcome of the call
\* given the reply (includeVoiceover is passed as false by the pipeline).
ValidatePrompts(sceneCount, includeMusic, reply) ==
    IF reply.count # sceneCount
    THEN RawError("Error", "none", 0,
                  {"Expected scenes"} \cup NumberText(sceneCount)
                    \cup NumberText(reply.count))
    ELSE IF reply.emptyEntry # 0
    THEN RawError("Error", "none", 0,
                  {"Invalid scene prompt"} \cup NumberText(reply.emptyEntry))
    ELSE IF includeMusic /\ ~reply.music
    THEN RawError("Error", "none", 0, {"Music requested"})
    ELSE OkOutcome

\* The prompts document saved by the prompts stage.
PromptsOf(reply) ==
    [scenePrompts |-> [i \in 1..reply.count |-> i], musicPrompt |-> reply.music]

\* Errors of the vendors' HTTP clients.
VendorErrors == {ErrUnauthorized, ErrUnavailable, ErrTimedOut}

\* Errors of the local file system.
DiskErrors == {ErrNoSpace}

\* Errors of the media engine: fluent-ffmpeg's "ffmpeg exited with code ...".
EngineErrors == {RawError("Error", "none", 0, {"ffmpeg"})}

\* The scripts of one withRetry call: what each of its invocations does.
\* Invocations that are never made are written as successes.
Scripts(opts, errors) ==
    {o \in [1..opts.maxAttempts -> {OkOutcome} \cup errors] :
        \A k \in 1..opts.maxAttempts :
            k > WithRetry(opts, o).calls => o[k] = OkOutcome}

ImageScripts == Scripts(REPLICATE_RETRY_OPTIONS, VendorErrors)

VideoScripts == Scripts(KLING_RETRY_OPTIONS, VendorErrors)

MusicScripts == Scripts(MUSIC_RETRY_OPTIONS, VendorErrors)

\* The failing invocations of a withRetry result.
Failures(r) == IF r.ok THEN r.calls - 1 ELSE r.calls

\* image_input with the original image put first: the anchor takes the
\* place of the rolling reference.
ImageReferencesAnchorFirst(options, referenceImagePath, originalCharacterImagePath) ==
    IF options.provider = "nano-banana"
    THEN IF options.includeOriginalAnchor
         THEN <<originalCharacterImagePath, referenceImagePath>>
         ELSE <<referenceImagePath>>
    ELSE <<referenceImagePath>>

\* image_input of nano-banana, character_reference_image of ideogram.
ImageReferences(options, referenceImagePath, originalCharacterImagePath) ==
    IF options.provider = "nano-banana"
    THEN IF options.includeOriginalAnchor
         THEN <<referenceImagePath, originalCharacterImagePath>>
         ELSE <<referenceImagePath>>
    ELSE <<referenceImagePath>>

\* duration: (options.duration === 5 ? "5" : "10")
KlingDuration(duration) == IF duration = 5 THEN 5 ELSE 10

\* The pipeline running the audio stage only when music is requested.
NextStageMusicOnly(req, stage) ==
    CASE stage = "prompts" -> "images"
      [] stage = "images" -> "videos"
      [] stage = "videos" -> IF req.includeMusic THEN "audio" ELSE "merge"
      [] stage = "audio" -> "merge"
      [] stage = "merge" -> "merge"

\* The stage executeGenerationPipeline runs after `stage`.
NextStage(req, stage) ==
    CASE stage = "prompts" -> "images"
      [] stage = "images" -> "videos"
      [] stage = "videos" ->
            IF req.includeVoiceover \/ req.includeMusic THEN "audio" ELSE "merge"
      [] stage = "audio" -> "merge"
      [] stage = "merge" -> "merge"

\* ------------------------------------------------------------ the state

VARIABLES
    request,            \* the GenerationRequest of the caller
    sessions,           \* SessionManager.sessions: sessionId -> session
    created,            \* number of sessions created so far (ids are fresh)
    artifacts,          \* runs/<sessionId>/artifacts.json: sessionId -> optional document
    files,              \* the media files that exist on disk
    now,                \* the clock the timestamps are read from
    pc,                 \* where generateVideo stands
    sid,                \* sessionId of the running generateVideo call
    stage,              \* the stage executeWithRetry is running
    attempt,            \* attempt of executeWithRetry
    scene,              \* loop index of generateSceneImages / generateSceneVideos
    doc,                \* the artifacts document the stage has read
    previousImagePath,  \* the rolling reference of generateSceneImages
    imagePaths,         \* imagePaths of generateSceneImages
    videoPaths,         \* videoUrls of generateSceneVideos
    pending,            \* the document the stage is about to save
    thrown,             \* the AppError on its way to the caller
    returned,           \* the session id generateVideo returned
    faults,             \* failing collaborator invocations so far
    calls,              \* invocations per collaborator for the running session
    imgCalls,           \* image generator invocations per scene, running session
    imgFails,           \* failed image generator invocations per scene
    imgErrs,            \* the errors the image generator has thrown
    lastImageCall,      \* scene and references of the last image generator call
    promptBad,          \* the prompt generator's reply failed validation
    rt                  \* withRetry on its own: options, script and result

pipelineVars ==
    <<request, sessions, created, artifacts, files, now, pc, sid, stage,
      attempt, scene, doc, previousImagePath, imagePaths, videoPaths, pending,
      thrown, returned, faults, calls, imgCalls, imgFails, imgErrs,
      lastImageCall, promptBad>>

vars == <<pipelineVars, rt>>

\* "script" counts the calls of the prompt generator that ask for a
\* voiceover script, "speech" the calls of the speech synthesizer.
Collaborators ==
    {"prompt", "script", "image", "video", "music", "speech", "engine"}

NoCalls == [c \in Collaborators |-> 0]

NoSceneCalls == [i \in 1..(SceneBound + 1) |-> 0]

IdleRetry == [opts |-> DEFAULT_RETRY_OPTIONS, outcomes |-> <<>>, result |-> {}]

PipelineInit ==
    /\ request \in Requests
    /\ sessions = <<>>
    /\ created = 0
    /\ artifacts = <<>>
    /\ files = {UploadPath}
    /\ now = 1
    /\ pc = "idle"
    /\ sid = 0
    /\ stage = "prompts"
    /\ attempt = 1
    /\ scene = 1
    /\ doc = {}
    /\ previousImagePath = UploadPath
    /\ imagePaths = <<>>
    /\ videoPaths = <<>>
    /\ pending = EmptyArtifacts
    /\ thrown = {}
    /\ returned = {}
    /\ faults = 0
    /\ calls = NoCalls
    /\ imgCalls = NoSceneCalls
    /\ imgFails = NoSceneCalls
    /\ imgErrs = {}
    /\ lastImageCall = {}
    /\ promptBad = FALSE

Init == PipelineInit /\ rt = IdleRetry

\* ------------------------------------------------------ generateVideo

\* The entry of generateVideo up to its first await: createSession with a
\* fresh id, then ensureSessionDirectories is pending.
EnterGenerateVideo ==
    /\ created' = created + 1
    /\ sid' = created + 1
    /\ sessions' = CreateSession(sessions, created + 1, request, UploadPath, now)
    /\ artifacts' = ((created + 1) :> {}) @@ artifacts
    /\ now' = now + 1
    /\ pc' = "dirs"
    /\ stage' = "prompts"
    /\ attempt' = 1
    /\ scene' = 1
    /\ doc' = {}
    /\ previousImagePath' = UploadPath
    /\ imagePaths' = <<>>
    /\ videoPaths' = <<>>
    /\ pending' = EmptyArtifacts
    /\ thrown' = {}
    /\ calls' = NoCalls
    /\ imgCalls' = NoSceneCalls
    /\ imgFails' = NoSceneCalls
    /\ imgErrs' = {}
    /\ lastImageCall' = {}
    /\ promptBad' = FALSE
    /\ UNCHANGED <<request, files, returned, faults, rt>>

\* The route calls generateVideo.
StartGeneration ==
    /\ pc = "idle"
    /\ EnterGenerateVideo

history == <<calls, imgCalls, imgFails, imgErrs, lastImageCall, promptBad>>

locals == <<scene, doc, previousImagePath, imagePaths, videoPaths, pending>>

\* ensureSessionDirectories resolves: the session is set to 'processing' and
\* executeGenerationPipeline starts with the prompts stage.
EnsureDirectoriesOk ==
    /\ pc = "dirs"
    /\ sessions' = UpdateSessionStatus(sessions, sid, "processing", {}, now)
    /\ now' = now + 1
    /\ pc' = "begin"
    /\ UNCHANGED <<request, created, artifacts, files, sid, stage, attempt,
                   locals, thrown, returned, faults, history, rt>>

\* ensureSessionDirectories rejects: the catch of generateVideo.
EnsureDirectoriesFail ==
    /\ pc = "dirs"
    /\ faults < MaxFaults
    /\ \E e \in DiskErrors :
        thrown' = {ToAppError(e, "")}
    /\ faults' = faults + 1
    /\ now' = now + 1
    /\ pc' = "catch"
    /\ UNCHANGED <<request, sessions, created, artifacts, files, sid, stage,
                   attempt, locals, returned, history, rt>>

\* The message the stage passes with its 'processing' write.
ProcessingMessage(st) ==
    CASE st = "prompts" -> "Generating scene prompts..."
      [] st = "images" -> "Generating scene images..."
      [] st = "videos" -> "Generating scene videos..."
      [] st = "audio" -> "Generating audio content..."
      [] st = "merge" -> "Merging videos and audio..."

\* The stage function reading the checkpoint of the request's first session
\* instead of its own.
BeginStageSharedCheckpoint ==
    /\ pc = "begin"
    /\ sessions' = UpdateStageStatus(sessions, sid, stage, "processing",
                                     ProcessingMessage(stage), {}, now)
    /\ doc' = IF stage = "prompts" THEN {} ELSE artifacts[1]
    /\ scene' = 1
    /\ previousImagePath' = UploadPath
    /\ imagePaths' = <<>>
    /\ videoPaths' = <<>>
    /\ pending' = EmptyArtifacts
    /\ now' = now + 1
    /\ pc' = "work"
    /\ UNCHANGED <<request, created, artifacts, files, sid, stage, attempt,
                   thrown, returned, faults, history, rt>>

\* operation() of executeWithRetry: the stage function writes 'processing'
\* and (every stage but prompts) reads artifacts.json.
BeginStage ==
    /\ pc = "begin"
    /\ sessions' = UpdateStageStatus(sessions, sid, stage, "processing",
                                     ProcessingMessage(stage), {}, now)
    /\ doc' = IF stage = "prompts" THEN {} ELSE artifacts[sid]
    /\ scene' = 1
    /\ previousImagePath' = UploadPath
    /\ imagePaths' = <<>>
    /\ videoPaths' = <<>>
    /\ pending' = EmptyArtifacts
    /\ now' = now + 1
    /\ pc' = "work"
    /\ UNCHANGED <<request, created, artifacts, files, sid, stage, attempt,
                   thrown, returned, faults, history, rt>>

\* The message the stage passes with its 'error' write.
FailureMessage(st) ==
    CASE st = "prompts" -> "Failed to generate prompts"
      [] st = "images" -> "Failed to generate images"
      [] st = "videos" -> "Failed to generate videos"
      [] st = "audio" -> "Failed to generate audio"
      [] st = "merge" -> "Failed to merge video content"

\* The catch of the stage function without its rethrow: the error is
\* recorded and the pipeline goes on to the next stage.
StageFailedSwallowed(error) ==
    /\ sessions' = UpdateStageStatus(sessions, sid, stage, "error",
                                     FailureMessage(stage), {error.msg}, now)
    /\ pc' = IF stage = "merge" THEN "finish" ELSE "begin"
    /\ stage' = NextStage(request, stage)
    /\ attempt' = 1
    /\ thrown' = thrown
    /\ now' = now + 1
    /\ UNCHANGED <<request, created, artifacts, sid, returned, rt>>

\* The catch of the stage function rethrowing without its 'error' write.
StageFailedUnrecorded(error) ==
    /\ sessions' = sessions
    /\ IF ShouldRetry(ToAppError(error, ""), attempt, StageMaxRetries)
       THEN /\ pc' = "begin"
            /\ attempt' = attempt + 1
            /\ thrown' = thrown
       ELSE /\ pc' = "catch"
            /\ attempt' = attempt
            /\ thrown' = {ToAppError(error, "")}
    /\ now' = now + 1
    /\ UNCHANGED <<request, created, artifacts, sid, stage, returned, rt>>

\* The catch of the stage function ('error' write, rethrow) and the catch of
\* executeWithRetry: retry after the delay, or throw to generateVideo.
StageFailed(error) ==
    /\ sessions' = UpdateStageStatus(sessions, sid, stage, "error",
                                     FailureMessage(stage), {error.msg}, now)
    /\ IF ShouldRetry(ToAppError(error, ""), attempt, StageMaxRetries)
       THEN /\ pc' = "begin"
            /\ attempt' = attempt + 1
            /\ thrown' = thrown
       ELSE /\ pc' = "catch"
            /\ attempt' = attempt
            /\ thrown' = {ToAppError(error, "")}
    /\ now' = now + 1
    /\ UNCHANGED <<request, created, artifacts, sid, stage, returned, rt>>

\* ----------------------------------------------------------- the stages

\* What reading and checking artifacts.json at the start of a stage throws
\* (OkOutcome: nothing).  d is the optional document.
ArtifactsError(st, d) ==
    IF st = "prompts" THEN OkOutcome
    ELSE IF d = {} THEN ErrNoEntry
    ELSE LET a == CHOOSE x \in d : TRUE IN
        CASE st = "images" ->
                IF a.prompts = {}
                THEN RawError("Error", "none", 0, {"No scene prompts found"})
                ELSE OkOutcome
          [] st = "videos" ->
                IF a.prompts = {} \/ a.imagePaths = {}
                THEN RawError("Error", "none", 0, {"Missing prompts or image paths"})
                ELSE OkOutcome
          [] st = "audio" ->
                IF a.prompts = {}
                THEN RawError("Error", "none", 0, {"No prompts found"})
                ELSE OkOutcome
          [] st = "merge" ->
                IF a.videoPaths = {} \/ a.videoPaths = {<<>>}
                THEN RawError("Error", "none", 0, {"No video paths found"})
                ELSE OkOutcome

TheDoc == CHOOSE x \in doc : TRUE

ThePrompts == CHOOSE x \in TheDoc.prompts : TRUE

Bump(f, k, n) == [f EXCEPT ![k] = @ + n]

\* The arguments with the request's own includeVoiceover passed on.
PromptCallWithVoiceover(req) ==
    [sceneCount |-> req.sceneCount,
     includeVoiceover |-> req.includeVoiceover,
     includeMusic |-> req.includeMusic]

\* The arguments generatePrompts passes to OpenAIService.generatePrompts:
\* includeVoiceover is the literal false.
PromptCall(req) ==
    [sceneCount |-> req.sceneCount,
     includeVoiceover |-> FALSE,
     includeMusic |-> req.includeMusic]

\* generatePrompts: one call of the prompt generator, then its validation.
RunPrompts ==
    /\ pc = "work"
    /\ stage = "prompts"
    /\ calls' = Bump(Bump(calls, "prompt", 1), "script",
                      IF PromptCall(request).includeVoiceover THEN 1 ELSE 0)
    /\ \/ \E e \in VendorErrors :
            /\ faults < MaxFaults
            /\ faults' = faults + 1
            /\ StageFailed(e)
            /\ UNCHANGED <<files, locals, imgCalls, imgFails, imgErrs,
                           lastImageCall, promptBad>>
       \/ \E reply \in PromptReplies(request) :
            LET v == ValidatePrompts(PromptCall(request).sceneCount,
                                     PromptCall(request).includeMusic, reply)
            IN IF v = OkOutcome
               THEN /\ pending' = [EmptyArtifacts EXCEPT !.prompts = {PromptsOf(reply)}]
                    /\ pc' = "save"
                    /\ now' = now + 1
                    /\ UNCHANGED <<request, sessions, created, artifacts, files,
                                   sid, stage, attempt, scene, doc,
                                   previousImagePath, imagePaths, videoPaths,
                                   thrown, returned, faults, imgCalls, imgFails,
                                   imgErrs, lastImageCall, promptBad, rt>>
               ELSE /\ faults < MaxFaults
                    /\ faults' = faults + 1
                    /\ promptBad' = TRUE
                    /\ StageFailed(v)
                    /\ UNCHANGED <<files, locals, imgCalls, imgFails, imgErrs,
                                   lastImageCall>>

\* The stage cannot read what it needs from artifacts.json.
RejectArtifacts ==
    /\ pc = "work"
    /\ ArtifactsError(stage, doc) # OkOutcome
    /\ StageFailed(ArtifactsError(stage, doc))
    /\ UNCHANGED <<files, locals, faults, history>>

\* The loop of generateSceneImages going on to the next scene when a scene
\* fails, and returning the paths of the scenes that succeeded.
RunImageSceneContinue ==
    /\ pc = "work"
    /\ stage = "images"
    /\ ArtifactsError(stage, doc) = OkOutcome
    /\ scene <= Len(ThePrompts.scenePrompts)
    /\ \E o \in ImageScripts :
        LET r == WithRetry(REPLICATE_RETRY_OPTIONS, o)
            out == SceneImagePath(sid, scene)
            paths == IF r.ok THEN Append(imagePaths, out) ELSE imagePaths
        IN /\ faults + Failures(r) <= MaxFaults
           /\ faults' = faults + Failures(r)
           /\ calls' = Bump(calls, "image", r.calls)
           /\ imgCalls' = Bump(imgCalls, scene, r.calls)
           /\ imgFails' = Bump(imgFails, scene, Failures(r))
           /\ imgErrs' = imgErrs \cup {o[k] : k \in 1..Failures(r)}
           /\ lastImageCall' =
                {[scene |-> scene,
                  refs |-> ImageReferences(EffectiveImageOptions(request),
                                           previousImagePath, UploadPath)]}
           /\ files' = IF r.ok THEN files \cup {out} ELSE files
           /\ imagePaths' = paths
           /\ previousImagePath' = IF r.ok THEN out ELSE previousImagePath
           /\ scene' = scene + 1
           /\ IF scene = Len(ThePrompts.scenePrompts)
              THEN /\ pending' = [TheDoc EXCEPT !.imagePaths = {paths}]
                   /\ pc' = "save"
              ELSE /\ pending' = pending
                   /\ pc' = pc
           /\ now' = now + 1
           /\ UNCHANGED <<request, sessions, created, artifacts, sid, stage,
                          attempt, doc, videoPaths, thrown, returned,
                          promptBad, rt>>

\* One turn of the loop of generateSceneImages: generateSingleSceneImage
\* for scene `scene` (withRetry around the model call, then the download),
\* and after the last scene the return to generateImages.
RunImageScene ==
    /\ pc = "work"
    /\ stage = "images"
    /\ ArtifactsError(stage, doc) = OkOutcome
    /\ scene <= Len(ThePrompts.scenePrompts)
    /\ \E o \in ImageScripts,
          d \in {OkOutcome} \cup DiskErrors :
        LET r == WithRetry(REPLICATE_RETRY_OPTIONS, o)
            bad == Failures(r) + (IF r.ok /\ d # OkOutcome THEN 1 ELSE 0)
            out == SceneImagePath(sid, scene)
        IN /\ ~r.ok => d = OkOutcome
           /\ faults + bad <= MaxFaults
           /\ faults' = faults + bad
           /\ calls' = Bump(calls, "image", r.calls)
           /\ imgCalls' = Bump(imgCalls, scene, r.calls)
           /\ imgFails' = Bump(imgFails, scene, Failures(r))
           /\ imgErrs' = imgErrs \cup {o[k] : k \in 1..Failures(r)}
           /\ lastImageCall' =
                {[scene |-> scene,
                  refs |-> ImageReferences(EffectiveImageOptions(request),
                                           previousImagePath, UploadPath)]}
           /\ promptBad' = promptBad
           /\ IF r.ok /\ d = OkOutcome
              THEN /\ files' = files \cup {out}
                   /\ imagePaths' = Append(imagePaths, out)
                   /\ previousImagePath' = out
                   /\ scene' = scene + 1
                   /\ IF scene = Len(ThePrompts.scenePrompts)
                      THEN /\ pending' = [TheDoc EXCEPT
                                            !.imagePaths = {Append(imagePaths, out)}]
                           /\ pc' = "save"
                      ELSE /\ pending' = pending
                           /\ pc' = pc
                   /\ now' = now + 1
                   /\ UNCHANGED <<request, sessions, created, artifacts, sid,
                                  stage, attempt, doc, videoPaths, thrown,
                                  returned, rt>>
              ELSE /\ StageFailed(IF r.ok THEN d ELSE r.error)
                   /\ UNCHANGED <<files, locals>>

\* throw new Error(`Scene ${i + 1} video generation failed: ${message}`)
WrapVideoError(e) ==
    RawError("Error", "none", 0, e.msg \cup {"video generation failed"})

\* One turn of the loop of generateSceneVideos: read the scene image, call
\* the video generator under withRetry, download the clip.
RunVideoScene ==
    /\ pc = "work"
    /\ stage = "videos"
    /\ ArtifactsError(stage, doc) = OkOutcome
    /\ scene <= Len(ThePrompts.scenePrompts)
    /\ LET sceneImagePaths == CHOOSE x \in TheDoc.imagePaths : TRUE
           readable == /\ scene <= Len(sceneImagePaths)
                       /\ sceneImagePaths[scene] \in files
       IN \E o \in VideoScripts,
             d \in {OkOutcome} \cup DiskErrors :
        LET r == WithRetry(KLING_RETRY_OPTIONS, o)
            bad == Failures(r) + (IF r.ok /\ d # OkOutcome THEN 1 ELSE 0)
            out == SceneVideoPath(sid, scene)
        IN IF ~readable
           THEN /\ o = [k \in 1..KLING_RETRY_OPTIONS.maxAttempts |-> OkOutcome]
                /\ d = OkOutcome
                /\ StageFailed(WrapVideoError(ErrNoEntry))
                /\ UNCHANGED <<files, locals, faults, history>>
           ELSE /\ ~r.ok => d = OkOutcome
                /\ faults + bad <= MaxFaults
                /\ faults' = faults + bad
                /\ calls' = Bump(calls, "video", r.calls)
                /\ UNCHANGED <<imgCalls, imgFails, imgErrs, lastImageCall,
                               promptBad>>
                /\ IF r.ok /\ d = OkOutcome
                   THEN /\ files' = files \cup {out}
                        /\ videoPaths' = Append(videoPaths, out)
                        /\ scene' = scene + 1
                        /\ IF scene = Len(ThePrompts.scenePrompts)
                           THEN /\ pending' = [TheDoc EXCEPT
                                        !.videoPaths = {Append(videoPaths, out)}]
                                /\ pc' = "save"
                           ELSE /\ pending' = pending
                                /\ pc' = pc
                        /\ now' = now + 1
                        /\ UNCHANGED <<request, sessions, created, artifacts,
                                       sid, stage, attempt, doc,
                                       previousImagePath, imagePaths, thrown,
                                       returned, rt>>
                   ELSE /\ StageFailed(WrapVideoError(IF r.ok THEN d ELSE r.error))
                        /\ UNCHANGED <<files, locals>>

AudioPaths(music, voiceovers) == [musicPath |-> music, voiceoverPaths |-> voiceovers]

\* generateAudio: background music when the request asks for it and the
\* prompts hold a music prompt; no voiceover.
RunAudio ==
    /\ pc = "work"
    /\ stage = "audio"
    /\ ArtifactsError(stage, doc) = OkOutcome
    /\ IF request.includeMusic /\ ThePrompts.musicPrompt
       THEN \E o \in MusicScripts :
            LET r == WithRetry(MUSIC_RETRY_OPTIONS, o)
            IN /\ faults + Failures(r) <= MaxFaults
               /\ faults' = faults + Failures(r)
               /\ calls' = Bump(calls, "music", r.calls)
               /\ UNCHANGED <<imgCalls, imgFails, imgErrs, lastImageCall,
                              promptBad>>
               /\ IF r.ok
                  THEN /\ files' = files \cup {MusicPath(sid)}
                       /\ pending' = [TheDoc EXCEPT !.audioPaths =
                                        {AudioPaths({MusicPath(sid)}, {})}]
                       /\ pc' = "save"
                       /\ now' = now + 1
                       /\ UNCHANGED <<request, sessions, created, artifacts,
                                      sid, stage, attempt, scene, doc,
                                      previousImagePath, imagePaths,
                                      videoPaths, thrown, returned, rt>>
                  ELSE /\ StageFailed(r.error)
                       /\ UNCHANGED <<files, locals>>
       ELSE /\ pending' = [TheDoc EXCEPT !.audioPaths = {AudioPaths({}, {})}]
            /\ pc' = "save"
            /\ now' = now + 1
            /\ UNCHANGED <<request, sessions, created, artifacts, files, sid,
                           stage, attempt, scene, doc, previousImagePath,
                           imagePaths, videoPaths, thrown, returned, faults,
                           history, rt>>

\* The files mergeVideoContent hands to the assembler: the recorded scene
\* clips and the recorded music track of the optional document d.
MergeInputs(d) ==
    UNION {UNION {{clips[i] : i \in DOMAIN clips} : clips \in a.videoPaths}
           \cup UNION {audio.musicPath : audio \in a.audioPaths}
           : a \in d}

\* The file system between the stages: a file the merge stage is about to
\* hand to the assembler is gone when fs.existsSync looks for it.
LoseMergeInput ==
    /\ pc = "begin"
    /\ stage = "merge"
    /\ attempt = 1
    /\ faults < MaxFaults
    /\ \E f \in MergeInputs(artifacts[sid]) \cap files :
        files' = files \ {f}
    /\ faults' = faults + 1
    /\ UNCHANGED <<request, sessions, created, artifacts, now, pc, sid, stage,
                   attempt, locals, thrown, returned, history, rt>>

\* Step 2 with the test `if (audioPaths)`: an empty audio record counts as
\* audio, and nothing writes the final file for it.
MergeAudioBranchTruthy(audioPaths) ==
    IF audioPaths # {}
    THEN IF (CHOOSE x \in audioPaths : TRUE).musicPath # {}
         THEN "mix" ELSE "skip"
    ELSE "copy"

\* Step 2 of mergeVideoContent: which way the final file is produced, given
\* the optional audioPaths of the document.  "mix": addAudioToVideo writes
\* it; "copy": the merged scenes are copied; "skip": nothing writes it.
MergeAudioBranch(audioPaths) ==
    IF audioPaths # {}
       /\ LET a == CHOOSE x \in audioPaths : TRUE
          IN a.voiceoverPaths # {} \/ a.musicPath # {}
    THEN IF (CHOOSE x \in audioPaths : TRUE).musicPath # {}
         THEN "mix" ELSE "skip"
    ELSE "copy"

\* mergeVideoContent: concatenateVideos, then addAudioToVideo or fs.copy,
\* then updateSessionFinalVideo.  concatenateVideos rejects when a clip is
\* not on disk; addAudioToVideo leaves out a music file that is not on disk
\* and goes on.
RunMerge ==
    /\ pc = "work"
    /\ stage = "merge"
    /\ ArtifactsError(stage, doc) = OkOutcome
    /\ LET clips == CHOOSE x \in TheDoc.videoPaths : TRUE
           present == \A i \in DOMAIN clips : clips[i] \in files
           branch == MergeAudioBranch(TheDoc.audioPaths)
       IN \E c \in {OkOutcome} \cup EngineErrors,
             m \in {OkOutcome} \cup EngineErrors \cup DiskErrors :
        LET bad == (IF c # OkOutcome THEN 1 ELSE 0)
                   + (IF m # OkOutcome THEN 1 ELSE 0)
        IN /\ (c # OkOutcome \/ ~present) => m = OkOutcome
           /\ branch = "mix" => m \notin DiskErrors
           /\ branch = "copy" => m \notin EngineErrors
           /\ branch = "skip" => m = OkOutcome
           /\ faults + bad <= MaxFaults
           /\ faults' = faults + bad
           /\ calls' = Bump(calls, "engine",
                            1 + (IF present /\ c = OkOutcome /\ branch = "mix"
                                 THEN 1 ELSE 0))
           /\ UNCHANGED <<imgCalls, imgFails, imgErrs, lastImageCall, promptBad>>
           /\ IF ~present
              THEN /\ StageFailed(RawError("Error", "none", 0, {"not found"}))
                   /\ UNCHANGED <<files, locals>>
              ELSE IF c # OkOutcome
              THEN /\ StageFailed(c)
                   /\ UNCHANGED <<files, locals>>
              ELSE IF m # OkOutcome
              THEN /\ StageFailed(m)
                   /\ files' = files \cup {MergedPath(sid)}
                   /\ UNCHANGED locals
              ELSE /\ files' = files \cup {MergedPath(sid)}
                        \cup (IF branch = "skip" THEN {} ELSE {FinalPath(sid)})
                   /\ sessions' = UpdateSessionFinalVideo(sessions, sid,
                                                          FinalPath(sid), now)
                   /\ pending' = [TheDoc EXCEPT !.finalVideoPath = {FinalPath(sid)}]
                   /\ pc' = "save"
                   /\ now' = now + 1
                   /\ UNCHANGED <<request, created, artifacts, sid, stage,
                                  attempt, scene, doc, previousImagePath,
                                  imagePaths, videoPaths, thrown, returned, rt>>

\* The message the stage passes with its 'completed' write.
CompletedMessage(st) ==
    CASE st = "prompts" -> "Generated prompts"
      [] st = "images" -> "Generated scene images with character consistency"
      [] st = "videos" -> "Generated scene videos"
      [] st = "audio" -> "Audio generation completed"
      [] st = "merge" -> "Video merging completed successfully"

\* The end of a stage function without its 'completed' write.
SaveStageUnmarked ==
    /\ pc = "save"
    /\ \E written \in BOOLEAN :
        /\ ~written => faults < MaxFaults
        /\ faults' = IF written THEN faults ELSE faults + 1
        /\ artifacts' = SaveSessionArtifacts(artifacts, sid, pending, written)
    /\ pc' = IF stage = "merge" THEN "finish" ELSE "begin"
    /\ stage' = NextStage(request, stage)
    /\ attempt' = 1
    /\ now' = now + 1
    /\ UNCHANGED <<request, sessions, created, files, sid, locals, thrown,
                   returned, history, rt>>

\* The end of a stage function: saveSessionArtifacts (a failed write is
\* swallowed), the 'completed' write, and the return to
\* executeGenerationPipeline, which goes on to the next stage.
SaveStage ==
    /\ pc = "save"
    /\ \E written \in BOOLEAN :
        /\ ~written => faults < MaxFaults
        /\ faults' = IF written THEN faults ELSE faults + 1
        /\ artifacts' = SaveSessionArtifacts(artifacts, sid, pending, written)
    /\ sessions' = UpdateStageStatus(sessions, sid, stage, "completed",
                                     CompletedMessage(stage), {}, now)
    /\ pc' = IF stage = "merge" THEN "finish" ELSE "begin"
    /\ stage' = NextStage(request, stage)
    /\ attempt' = 1
    /\ now' = now + 1
    /\ UNCHANGED <<request, created, files, sid, locals, thrown, returned,
                   history, rt>>

\* generateVideo returning the session id without the 'completed' write.
FinishPipelineUnmarked ==
    /\ pc = "finish"
    /\ returned' = {sid}
    /\ pc' = "done"
    /\ now' = now + 1
    /\ UNCHANGED <<request, sessions, created, artifacts, files, sid, stage,
                   attempt, locals, thrown, faults, history, rt>>

\* executeGenerationPipeline has returned: the session is 'completed' and
\* generateVideo returns its id.
FinishPipeline ==
    /\ pc = "finish"
    /\ sessions' = UpdateSessionStatus(sessions, sid, "completed", {}, now)
    /\ returned' = {sid}
    /\ pc' = "done"
    /\ now' = now + 1
    /\ UNCHANGED <<request, created, artifacts, files, sid, stage, attempt,
                   locals, thrown, faults, history, rt>>

TheError == CHOOSE e \in thrown : TRUE

\* The catch of generateVideo: the session is 'failed' with the error's
\* message, then attemptRecovery is pending.
CatchFailure ==
    /\ pc = "catch"
    /\ sessions' = UpdateSessionStatus(sessions, sid, "failed", {TheError.msg}, now)
    /\ pc' = "recover"
    /\ now' = now + 1
    /\ UNCHANGED <<request, created, artifacts, files, sid, stage, attempt,
                   locals, thrown, returned, faults, history, rt>>

\* attemptRecovery reported success: generateVideo calls itself with the
\* same request and image.
RecoverRestart ==
    /\ pc = "recover"
    /\ AttemptRecovery(TheError)
    /\ EnterGenerateVideo

\* generateVideo restarting without looking at what attemptRecovery reported.
RecoverThrowRestarts ==
    /\ pc = "recover"
    /\ ~AttemptRecovery(TheError)
    /\ EnterGenerateVideo

\* attemptRecovery reported failure: the error is thrown to the caller.
RecoverThrow ==
    /\ pc = "recover"
    /\ ~AttemptRecovery(TheError)
    /\ pc' = "failed"
    /\ UNCHANGED <<request, sessions, created, artifacts, files, now, sid,
                   stage, attempt, locals, thrown, returned, faults, history, rt>>

Next ==
    \/ StartGeneration
    \/ EnsureDirectoriesOk
    \/ EnsureDirectoriesFail
    \/ BeginStage
    \/ RunPrompts
    \/ RejectArtifacts
    \/ RunImageScene
    \/ RunVideoScene
    \/ RunAudio
    \/ LoseMergeInput
    \/ RunMerge
    \/ SaveStage
    \/ FinishPipeline
    \/ CatchFailure
    \/ RecoverRestart
    \/ RecoverThrow

Spec == Init /\ [][Next]_vars

\* ------------------------------------------------- withRetry on its own

\* The errors an operation given to withRetry throws.
RetryErrors ==
    {ErrUnauthorized, ErrUnavailable, ErrTimedOut, ErrAuthClass, ErrValidationClass}

\* Every policy with 1..MaxAttemptsBound attempts and every predicate, and
\* every script of the operation's outcomes.
RetryInit ==
    /\ PipelineInit
    /\ request = GenerationRequest(1, FALSE, FALSE, {})
    /\ \E m \in 1..MaxAttemptsBound, p \in RetryPredicates,
          o \in [1..MaxAttemptsBound -> {OkOutcome} \cup RetryErrors] :
        rt = [opts |-> [DEFAULT_RETRY_OPTIONS EXCEPT !.maxAttempts = m,
                                                     !.retryableErrors = p],
              outcomes |-> o, result |-> {}]

\* withRetry(operation, options) runs to its return or throw.
RunWithRetry ==
    /\ rt.result = {}
    /\ rt' = [rt EXCEPT !.result = {WithRetry(rt.opts, rt.outcomes)}]
    /\ UNCHANGED pipelineVars

RetryNext == RunWithRetry

RetrySpec == RetryInit /\ [][RetryNext]_vars

\* ---------------------------------------------------------------------
\* handleServiceError as a function of the raw error, on its own.

\* The values of error.code that handleServiceError tests, and none.
ErrorCodes ==
    {"none", "insufficient_quota", "rate_limit_exceeded", "ENOTFOUND",
     "ECONNREFUSED", "ETIMEDOUT", "ENOENT", "EACCES", "EPERM", "ENOSPC"}

\* The substrings of error.message that handleServiceError tests.
MessageMarks ==
    {"prediction failed", "quota", "timeout", "ffmpeg", "ffprobe", "503",
     "temporary"}

\* Every raw error: a code and a message holding any of the substrings.
ClassifierInit ==
    /\ PipelineInit
    /\ request = GenerationRequest(1, FALSE, FALSE, {})
    /\ \E c \in ErrorCodes, m \in SUBSET MessageMarks :
        rt = [error |-> RawError("Error", c, 0, m), result |-> {}]

\* handleServiceError(error, context) returns.
Classify ==
    /\ rt.result = {}
    /\ rt' = [rt EXCEPT !.result = {HandleServiceError(rt.error, "video")}]
    /\ UNCHANGED pipelineVars

ClassifierNext == Classify

ClassifierSpec == ClassifierInit /\ [][ClassifierNext]_vars

\* ---------------------------------------------------------------------
\* The delays slept by withRetry and by executeWithRetry.  Math.random()
\* is an input, in hundredths; backoffMultiplier is in tenths.

\* Math.min(baseDelayMs * Math.pow(backoffMultiplier, attempt - 1), maxDelayMs)
\* with the cap left out.
BackoffDelayUncapped(opts, n) ==
    (opts.baseDelayMs * opts.backoffMultiplier^(n - 1))
        \div 10^(n - 1)

\* Math.min(baseDelayMs * Math.pow(backoffMultiplier, attempt - 1), maxDelayMs),
\* in milliseconds.
BackoffDelay(opts, n) ==
    LET grown == (opts.baseDelayMs * opts.backoffMultiplier^(n - 1))
                    \div 10^(n - 1)
    IN IF grown < opts.maxDelayMs THEN grown ELSE opts.maxDelayMs

\* delay + Math.random() * delay * 0.1, in microseconds.
JitteredDelay(delay, random) == delay * 1000 + random * delay

\* The loop of withRetry from attempt n on, with the delays it sleeps:
\* randoms[k] is what Math.random() returns after the k-th failure.
RECURSIVE SleepLoop(_, _, _, _)
SleepLoop(opts, outcomes, randoms, n) ==
    IF n > opts.maxAttempts
    THEN [calls |-> n - 1, slept |-> <<>>]
    ELSE IF outcomes[n].cls = "ok"
         THEN [calls |-> n, slept |-> <<>>]
         ELSE IF \/ ~IsRetryable(opts.retryableErrors, outcomes[n])
                 \/ n = opts.maxAttempts
              THEN [calls |-> n, slept |-> <<>>]
              ELSE LET rest == SleepLoop(opts, outcomes, randoms, n + 1)
                   IN [calls |-> rest.calls,
                       slept |-> <<JitteredDelay(BackoffDelay(opts, n),
                                                 randoms[n])>>
                                 \o rest.slept]

\* getRetryDelay(attempt): Math.floor(1000 * 2^(attempt-1) * (1 + jitter))
\* with jitter = Math.random() * 0.3, in milliseconds.
GetRetryDelay(n, random) ==
    LET exponentialDelay == 1000 * 2^(n - 1)
    IN (exponentialDelay * (1000 + 3 * random)) \div 1000

\* The loop of executeWithRetry from attempt n on, with the delays it
\* sleeps: outcomes[k] is what the k-th run of the stage function does.
RECURSIVE StageSleepLoop(_, _, _, _)
StageSleepLoop(outcomes, randoms, n, maxRetries) ==
    IF n > maxRetries
    THEN [calls |-> n - 1, slept |-> <<>>]
    ELSE IF outcomes[n].cls = "ok"
         THEN [calls |-> n, slept |-> <<>>]
         ELSE IF ~ShouldRetry(ToAppError(outcomes[n], ""), n,
                              maxRetries)
              THEN [calls |-> n, slept |-> <<>>]
              ELSE LET rest == StageSleepLoop(outcomes, randoms, n + 1,
                                              maxRetries)
                   IN [calls |-> rest.calls,
                       slept |-> <<GetRetryDelay(n, randoms[n])>>
                                 \o rest.slept]

\* The policies of the repository.
BackoffPolicies ==
    {DEFAULT_RETRY_OPTIONS, REPLICATE_RETRY_OPTIONS, KLING_RETRY_OPTIONS,
     MUSIC_RETRY_OPTIONS}

\* Values of Math.random(), in hundredths: the ends of [0, 1).
Randoms == {0, 99}

\* Every policy of the repository with 1..MaxAttemptsBound attempts and
\* with its own cap or one of one and a half base delays, every script of
\* outcomes and of random numbers; and every script for a stage.
BackoffInit ==
    /\ PipelineInit
    /\ request = GenerationRequest(1, FALSE, FALSE, {})
    /\ \/ \E p \in BackoffPolicies, m \in 1..MaxAttemptsBound,
            tight \in BOOLEAN,
            o \in [1..MaxAttemptsBound ->
                    {OkOutcome, ErrUnavailable, ErrUnauthorized}],
            r \in [1..MaxAttemptsBound -> Randoms] :
          rt = [kind |-> "withRetry",
                opts |-> [p EXCEPT !.maxAttempts = m,
                            !.maxDelayMs =
                                IF tight
                                THEN p.baseDelayMs + p.baseDelayMs \div 2
                                ELSE @],
                outcomes |-> o, randoms |-> r, result |-> {}]
       \/ \E o \in [1..StageMaxRetries ->
                    {OkOutcome, ErrUnavailable, ErrNoEntry}],
            r \in [1..StageMaxRetries -> Randoms] :
          rt = [kind |-> "stage", opts |-> DEFAULT_RETRY_OPTIONS,
                outcomes |-> o, randoms |-> r, result |-> {}]

\* withRetry(operation, options) runs to its return or throw.
RunBackoff ==
    /\ rt.kind = "withRetry"
    /\ rt.result = {}
    /\ rt' = [rt EXCEPT !.result =
                {SleepLoop(rt.opts, rt.outcomes, rt.randoms, 1)}]
    /\ UNCHANGED pipelineVars

\* executeWithRetry(operation, stage, sessionId) runs to its return or throw.
RunStageBackoff ==
    /\ rt.kind = "stage"
    /\ rt.result = {}
    /\ rt' = [rt EXCEPT !.result =
                {StageSleepLoop(rt.outcomes, rt.randoms, 1, StageMaxRetries)}]
    /\ UNCHANGED pipelineVars

BackoffNext == RunBackoff \/ RunStageBackoff

BackoffSpec == BackoffInit /\ [][BackoffNext]_vars

\* ---------------------------------------------------------------------
\* FFmpegService: the command concatenateVideos and addAudioToVideo build,
\* as functions of their arguments and of the files on disk.  A volume is
\* in tenths; an input is named by its index in the command.

\* config.maxScenes, the largest sceneCount the route admits.
MaxScenes == 5

\* buildConcatVideoInputs with the labels counted from 1.
ConcatVideoInputsFromOne(videoCount) == [i \in 1..videoCount |-> i]

\* buildConcatVideoInputs(videoCount): the labels [0:v] .. [videoCount-1:v].
ConcatVideoInputs(videoCount) == [i \in 1..videoCount |-> i - 1]

\* concatenateVideos with fadeTransition false: the inputs added in the
\* order of options.videoPaths (a path not on disk rejects the promise and is left
\* out), and the filter concat=n=<count>:v=1:a=0 over the labels.
ConcatenateVideos(paths, disk) ==
    [rejected |-> \E i \in DOMAIN paths : paths[i] \notin disk,
     inputs |-> SelectSeq(paths, LAMBDA f : f \in disk),
     labels |-> ConcatVideoInputs(Len(paths)),
     n |-> Len(paths),
     engine |-> 1]

\* Steps 0 and 1 of mergeVideoContent for the optional document d: the
\* check of videoPaths, then concatenateVideos.
MergeConcat(d, disk) ==
    IF ArtifactsError("merge", d) # OkOutcome
    THEN [rejected |-> TRUE, inputs |-> <<>>, labels |-> <<>>, n |-> 0,
          engine |-> 0]
    ELSE ConcatenateVideos(
            CHOOSE x \in (CHOOSE a \in d : TRUE).videoPaths : TRUE, disk)

\* options.voiceVolume || 1.0 and options.musicVolume || 0.3: an unset
\* volume and a volume of 0 both give the default.
VolumeOr(volume, default) ==
    IF volume = {} \/ volume = {0} THEN default ELSE CHOOSE v \in volume : TRUE

\* The last filter of buildAudioMixFilter always being amix.
MixerAlways(sources) ==
    IF Len(sources) >= 1
    THEN {[kind |-> "amix", inputs |-> Len(sources)]}
    ELSE {}

\* The last filter of buildAudioMixFilter: amix over more than one source,
\* anull for a single one, none for none.
Mixer(sources) ==
    IF Len(sources) > 1
    THEN {[kind |-> "amix", inputs |-> Len(sources)]}
    ELSE IF Len(sources) = 1 THEN {[kind |-> "anull", inputs |-> 1]}
    ELSE {}

\* buildAudioMixFilter(options, inputCount, hasOriginalAudio): one
\* aresample,volume filter per source and the final filter.
BuildAudioMixFilter(options, inputCount, hasOriginalAudio) ==
    LET voiceVolume == VolumeOr(options.voiceVolume, 10)
        musicVolume == VolumeOr(options.musicVolume, 3)
        original == IF hasOriginalAudio
                    THEN <<[label |-> "original", input |-> 0, volume |-> 5]>>
                    ELSE <<>>
        voice == IF options.voiceoverPath # {}
                 THEN <<[label |-> "voice", input |-> 1,
                         volume |-> voiceVolume]>>
                 ELSE <<>>
        music == IF options.musicPath # {}
                 THEN <<[label |-> "music",
                         input |-> 1 + Len(voice),
                         volume |-> musicVolume]>>
                 ELSE <<>>
        sources == original \o voice \o music
    IN [sources |-> sources, mixer |-> Mixer(sources)]

\* addAudioToVideo(videoPath, audioOptions): the inputs of the command, the
\* filter graph when an audio input was added, and the audio mapping.
AddAudioToVideo(videoPath, audioOptions, hasAudio, disk) ==
    LET voiceover == IF audioOptions.voiceoverPath \cap disk # {}
                     THEN <<CHOOSE f \in audioOptions.voiceoverPath : TRUE>>
                     ELSE <<>>
        music == IF audioOptions.musicPath \cap disk # {}
                 THEN <<CHOOSE f \in audioOptions.musicPath : TRUE>>
                 ELSE <<>>
        audioInputIndex == 1 + Len(voiceover) + Len(music)
        filters == IF audioInputIndex > 1
                   THEN {BuildAudioMixFilter(audioOptions, audioInputIndex,
                                             hasAudio)}
                   ELSE {}
    IN [inputs |-> <<videoPath>> \o voiceover \o music,
        filters |-> filters,
        audioMap |-> IF filters # {} THEN "[outa]" ELSE "0:a?"]

AudioMixOptions(voiceoverPath, musicPath, voiceVolume, musicVolume) ==
    [voiceoverPath |-> voiceoverPath, musicPath |-> musicPath,
     voiceVolume |-> voiceVolume, musicVolume |-> musicVolume]

\* Step 2 of mergeVideoContent for the optional audioPaths of the
\* document: addAudioToVideo with the music at volume 0.5, or fs.copy.
MergeAudio(audioPaths, hasAudio, disk) ==
    LET branch == MergeAudioBranch(audioPaths)
    IN [final |-> branch,
        mix |-> IF branch = "mix"
                THEN {AddAudioToVideo(MergedPath(1),
                        AudioMixOptions({},
                            (CHOOSE a \in audioPaths : TRUE).musicPath,
                            {}, {5}),
                        hasAudio, disk)}
                ELSE {}]

VoiceoverPath == Path("voiceover", 1, 0)

\* The recorded clip lists: the clips of one session, each at most once, in
\* any order; the list the videos stage records is among them.
ClipLists ==
    UNION {{l \in [1..n -> {SceneVideoPath(1, k) : k \in 1..MaxScenes}] :
                \A i, j \in 1..n : l[i] = l[j] => i = j}
           : n \in 0..MaxScenes}

\* Volumes a caller configures, in tenths, and none.
Volumes == {{}, {0}, {5}, {10}}

\* The arguments of the three functions: a document with no, an empty or a
\* filled clip list; audio options with each file not supplied, supplied
\* and on disk, or supplied and not on disk; a recorded audioPaths.
AssemblerInit ==
    /\ PipelineInit
    /\ request = GenerationRequest(1, FALSE, FALSE, {})
    /\ \/ \E vp \in {{}} \cup {{l} : l \in ClipLists} :
            rt = [kind |-> "concat",
                  document |-> {[EmptyArtifacts EXCEPT !.videoPaths = vp]},
                  disk |-> {SceneVideoPath(1, k) : k \in 1..MaxScenes},
                  result |-> {}]
       \/ \E hasAudio \in BOOLEAN,
             voiceover, music \in {"none", "file", "missing"},
             voiceVolume, musicVolume \in Volumes :
            rt = [kind |-> "mix",
                  hasAudio |-> hasAudio,
                  options |-> AudioMixOptions(
                        IF voiceover = "none" THEN {} ELSE {VoiceoverPath},
                        IF music = "none" THEN {} ELSE {MusicPath(1)},
                        voiceVolume, musicVolume),
                  disk |-> {MergedPath(1)}
                        \cup (IF voiceover = "file" THEN {VoiceoverPath} ELSE {})
                        \cup (IF music = "file" THEN {MusicPath(1)} ELSE {}),
                  result |-> {}]
       \/ \E hasAudio \in BOOLEAN,
             audioPaths \in {{}, {AudioPaths({}, {})},
                             {AudioPaths({MusicPath(1)}, {})}} :
            rt = [kind |-> "merge",
                  hasAudio |-> hasAudio,
                  audioPaths |-> audioPaths,
                  disk |-> {MergedPath(1), MusicPath(1)},
                  result |-> {}]

\* mergeVideoContent up to the end of concatenateVideos.
RunConcat ==
    /\ rt.kind = "concat"
    /\ rt.result = {}
    /\ rt' = [rt EXCEPT !.result = {MergeConcat(rt.document, rt.disk)}]
    /\ UNCHANGED pipelineVars

\* addAudioToVideo(videoPath, audioOptions) builds its command.
RunMix ==
    /\ rt.kind = "mix"
    /\ rt.result = {}
    /\ rt' = [rt EXCEPT !.result =
                {AddAudioToVideo(MergedPath(1), rt.options, rt.hasAudio,
                                 rt.disk)}]
    /\ UNCHANGED pipelineVars

\* Step 2 of mergeVideoContent.
RunMergeAudio ==
    /\ rt.kind = "merge"
    /\ rt.result = {}
    /\ rt' = [rt EXCEPT !.result =
                {MergeAudio(rt.audioPaths, rt.hasAudio, rt.disk)}]
    /\ UNCHANGED pipelineVars

AssemblerNext == RunConcat \/ RunMix \/ RunMergeAudio

AssemblerSpec == AssemblerInit /\ [][AssemblerNext]_vars

\* ---------------------------------------------------------------------
\* What the videos stage and the audio stage ask of their collaborators,
\* as functions of the request, the document and config.sceneDurationSeconds.

\* The `input` KlingService.generateVideo submits.
KlingInput(imageUrl, prompt, duration) ==
    [image_url |-> imageUrl, prompt |-> prompt,
     duration |-> KlingDuration(duration)]

\* generateVideos and generateSceneVideos: one generateVideo per scene
\* prompt, with sceneImagePaths[i], scene.videoPrompt and the configured
\* duration.
GenerateSceneVideos(scenePrompts, sceneImagePaths, sceneDurationSeconds) ==
    [i \in 1..Len(scenePrompts) |->
        KlingInput(sceneImagePaths[i], scenePrompts[i].videoPrompt,
                   sceneDurationSeconds)]

\* totalDuration with the scene count left out.
TotalDurationOneScene(req, sceneDurationSeconds) == sceneDurationSeconds

\* const totalDuration = request.sceneCount * config.sceneDurationSeconds
TotalDuration(req, sceneDurationSeconds) ==
    req.sceneCount * sceneDurationSeconds

\* What generateMusic passes to client.music.compose.
MusicCompose(prompt, duration) ==
    [prompt |-> prompt, musicLengthMs |-> duration * 1000]

\* generateAudio after its check of the prompts: the calls of the music
\* synthesizer and the audioPaths it saves.
GenerateAudio(req, prompts, sceneDurationSeconds) ==
    IF req.includeMusic /\ prompts.musicPrompt
    THEN [music |-> <<MusicCompose("musicPrompt",
                        TotalDuration(req, sceneDurationSeconds))>>,
          audioPaths |-> AudioPaths({MusicPath(1)}, {})]
    ELSE [music |-> <<>>, audioPaths |-> AudioPaths({}, {})]

\* The validated scene prompts of n scenes.
ScenePromptsOf(n) ==
    [i \in 1..n |-> [sceneNumber |-> i, imagePrompt |-> <<"imagePrompt", i>>,
                     videoPrompt |-> <<"videoPrompt", i>>]]

\* Every scene count and configured duration for the videos stage; every
\* request, music prompt and configured duration for the audio stage.
StageCallsInit ==
    /\ PipelineInit
    /\ request = GenerationRequest(1, FALSE, FALSE, {})
    /\ \/ \E n \in 1..MaxScenes, d \in 1..DurationBound :
            rt = [kind |-> "videos",
                  scenePrompts |-> ScenePromptsOf(n),
                  imagePaths |-> [i \in 1..n |-> SceneImagePath(1, i)],
                  sceneDurationSeconds |-> d,
                  result |-> {}]
       \/ \E n \in 1..MaxScenes, voiceover, music, musicPrompt \in BOOLEAN,
             d \in 1..DurationBound :
            rt = [kind |-> "audio",
                  request |-> GenerationRequest(n, voiceover, music, {}),
                  prompts |-> [scenePrompts |-> ScenePromptsOf(n),
                               musicPrompt |-> musicPrompt],
                  sceneDurationSeconds |-> d,
                  result |-> {}]

\* generateVideos makes its calls.
RunVideoCalls ==
    /\ rt.kind = "videos"
    /\ rt.result = {}
    /\ rt' = [rt EXCEPT !.result =
                {GenerateSceneVideos(rt.scenePrompts, rt.imagePaths,
                                     rt.sceneDurationSeconds)}]
    /\ UNCHANGED pipelineVars

\* generateAudio makes its calls.
RunAudioCalls ==
    /\ rt.kind = "audio"
    /\ rt.result = {}
    /\ rt' = [rt EXCEPT !.result =
                {GenerateAudio(rt.request, rt.prompts,
                               rt.sceneDurationSeconds)}]
    /\ UNCHANGED pipelineVars

StageCallsNext == RunVideoCalls \/ RunAudioCalls

StageCallsSpec == StageCallsInit /\ [][StageCallsNext]_vars

\* ------------------------------------------------------------ properties

StageStatusOf(id, i) == sessions[id].stages[i].status

StageCount(id) == Len(sessions[id].stages)

\* C1: a stage of a session is set to 'processing' only when every stage
\* before it in the session's stage list is 'completed', whatever fails and
\* whichever stage is retried.
StagesStartInOrder ==
    [][\A id \in DOMAIN sessions : \A i \in 1..StageCount(id) :
          (/\ StageStatusOf(id, i) # "processing"
           /\ sessions'[id].stages[i].status = "processing")
          => \A j \in 1..(i - 1) : StageStatusOf(id, j) = "completed"]_vars

\* A later stage is 'processing' again on a retry of executeWithRetry.
LaterStageRetried ==
    /\ sid \in DOMAIN sessions
    /\ attempt > 1
    /\ pc = "work"
    /\ \E i \in 2..StageCount(sid) :
        /\ sessions[sid].stages[i].stage = stage
        /\ StageStatusOf(sid, i) = "processing"

\* C2: a session is 'completed' only if every stage of its stage list is
\* 'completed' and its final video path is set.
CompletedMeansMerged ==
    \A id \in DOMAIN sessions :
        sessions[id].status = "completed"
        => /\ \A i \in 1..StageCount(id) : StageStatusOf(id, i) = "completed"
           /\ sessions[id].finalVideoPath # {}

\* A session with an audio stage is 'completed'.
CompletedWithAudioStage ==
    \E id \in DOMAIN sessions :
        /\ sessions[id].status = "completed"
        /\ StageCount(id) = 5

StatusMoveAllowed(before, after) ==
    \/ after = before
    \/ before = "pending" /\ after = "processing"
    \/ before = "processing" /\ after \in {"completed", "error"}

\* C3: a stage's status only moves pending -> processing -> completed or
\* error; a stage that is 'completed' or 'error' never returns to 'pending'
\* or 'processing', also when the orchestrator retries a failed stage.
StageMonotonicity ==
    [][\A id \in DOMAIN sessions : \A i \in 1..StageCount(id) :
          StatusMoveAllowed(StageStatusOf(id, i),
                            sessions'[id].stages[i].status)]_vars

\* C4: recovery is bounded: the sessions one request creates do not grow
\* with the failures it meets, so a request that meets MaxFaults failures
\* of the same kind creates fewer than one session per failure plus one.
RecoveryBounded == created <= MaxFaults

RollingReferenceOf(call) ==
    IF call.scene = 1 THEN UploadPath ELSE SceneImagePath(sid, call.scene - 1)

\* C5 (amended): the first reference of every image generator call is the
\* upload for scene 1 and the output path of scene k-1 of the same run for
\* scene k > 1; the original is passed as a second reference exactly when
\* the provider is nano-banana and includeOriginalAnchor is set, and no
\* other reference is passed.
RollingReference ==
    \A call \in lastImageCall :
        /\ call.refs[1] = RollingReferenceOf(call)
        /\ (call.scene > 1 /\ Len(imagePaths) >= call.scene - 1)
            => call.refs[1] = imagePaths[call.scene - 1]
        /\ call.scene > 1 => call.refs[1] \in files
        /\ LET options == EffectiveImageOptions(request)
           IN IF options.provider = "nano-banana" /\ options.includeOriginalAnchor
              THEN call.refs = <<RollingReferenceOf(call), UploadPath>>
              ELSE call.refs = <<RollingReferenceOf(call)>>

\* Scene 2 was generated with the rolling reference and the anchor.
SecondSceneAnchored ==
    \E call \in lastImageCall : call.scene = 2 /\ Len(call.refs) = 2

\* C5 (as stated): whenever includeOriginalAnchor is set the original image
\* is passed as a second reference after the rolling one.
AnchorAlwaysPassed ==
    \A call \in lastImageCall :
        EffectiveImageOptions(request).includeOriginalAnchor
        => call.refs = <<RollingReferenceOf(call), UploadPath>>

RetryResult == CHOOSE r \in rt.result : TRUE

\* The k-th invocation of the operation throws an error the policy retries.
FailsRetryably(k) ==
    /\ rt.outcomes[k].cls # "ok"
    /\ IsRetryable(rt.opts.retryableErrors, rt.outcomes[k])

\* C6: with maxAttempts m, an operation that fails f < m times with
\* retryable errors and then succeeds is invoked exactly f+1 times and its
\* result is returned; one that always fails retryably is invoked exactly m
\* times; the error thrown is the error of the last invocation.
InvocationCount ==
    rt.result # {}
    => LET m == rt.opts.maxAttempts
           r == RetryResult
       IN /\ \A f \in 0..(m - 1) :
                (/\ \A k \in 1..f : FailsRetryably(k)
                 /\ rt.outcomes[f + 1].cls = "ok")
                => r.ok /\ r.calls = f + 1
          /\ (\A k \in 1..m : FailsRetryably(k)) => ~r.ok /\ r.calls = m
          /\ ~r.ok => r.calls >= 1 /\ r.error = rt.outcomes[r.calls]

\* Two retryable failures, then the third and last attempt succeeds.
ThirdAttemptSucceeds ==
    /\ rt.result # {}
    /\ rt.opts.maxAttempts = 3
    /\ FailsRetryably(1) /\ FailsRetryably(2)
    /\ RetryResult.ok /\ RetryResult.calls = 3

\* C7: an operation that throws a validation- or authentication-class
\* error is invoked exactly once by withRetry, whatever maxAttempts is and
\* whatever the policy's predicate answers.
ClassedErrorsNeverRetried ==
    (/\ rt.result # {}
     /\ rt.outcomes[1].cls \in {"ValidationError", "AuthenticationError"})
    => RetryResult.calls = 1

\* C8: once the prompt generator's reply has failed validation (and nothing
\* else has failed), the prompt generator has been called exactly once and
\* is not called again: the prompts stage is 'error', the other stages are
\* 'pending', no other collaborator is called, there is no restart, and
\* the session is 'failed' when generateVideo throws.
ValidationFailureIsFinal ==
    (promptBad /\ faults = 1)
    => /\ created = 1
       /\ calls["prompt"] = 1
       /\ \A c \in Collaborators \ {"prompt"} : calls[c] = 0
       /\ pc \in {"catch", "recover", "failed"}
       /\ StageStatusOf(sid, 1) = "error"
       /\ \A i \in 2..StageCount(sid) : StageStatusOf(sid, i) = "pending"
       /\ pc = "failed" => sessions[sid].status = "failed"

\* The image generator has failed on scene k only, at most twice, and
\* nothing else has failed in the request.
OnlySceneFailed(k) ==
    /\ created = 1
    /\ imgFails[k] \in 1..2
    /\ faults = imgFails[k]
    /\ \A j \in DOMAIN imgFails : j # k => imgFails[j] = 0

\* What scenario C promises for scene k.
SceneFailuresAbsorbed(k) ==
    /\ pc \notin {"catch", "recover", "failed"}
    /\ imgCalls[k] <= REPLICATE_RETRY_OPTIONS.maxAttempts
    /\ \A j \in 1..request.sceneCount : j # k => imgCalls[j] <= 1
    /\ pc = "done"
        => /\ sessions[sid].status = "completed"
           /\ imgCalls[k] = imgFails[k] + 1
           /\ \A j \in 1..request.sceneCount : j # k => imgCalls[j] = 1

\* C9 (amended): when the image generator fails at most twice on scene k
\* with errors the image policy retries (HTTP 429 or 5xx) and then
\* succeeds, and nothing else fails, the session does not fail and ends
\* 'completed', scene k is invoked at most 3 times and every other scene
\* exactly once.
RetryableSceneFailuresAbsorbed ==
    \A k \in 1..request.sceneCount :
        (/\ OnlySceneFailed(k)
         /\ \A e \in imgErrs : IsRetryable(REPLICATE_RETRY_OPTIONS.retryableErrors, e))
        => SceneFailuresAbsorbed(k)

\* The last scene failed twice, succeeded, and the session completed.
LastSceneFailedTwiceThenDone ==
    /\ pc = "done"
    /\ request.sceneCount > 1
    /\ OnlySceneFailed(request.sceneCount)
    /\ imgFails[request.sceneCount] = 2
    /\ imgCalls[request.sceneCount] = 3

\* C9 (as stated): the same, whatever kind of failure the errors are.
AnySceneFailuresAbsorbed ==
    \A k \in 1..request.sceneCount :
        OnlySceneFailed(k) => SceneFailuresAbsorbed(k)

\* The paths of scenes 1..n in scene order.
ScenePaths(kind, n) == [k \in 1..n |-> Path(kind, sid, k)]

\* C10: a run that ends 'completed' has recorded exactly N scene image
\* paths and N scene video paths, one per scene in scene order, every one
\* of them a file on disk, and has written the final file, on each path
\* through the merge stage.
CompletedRunArtifacts ==
    pc = "done"
    => /\ sessions[sid].status = "completed"
       /\ artifacts[sid] # {}
       /\ LET a == CHOOSE x \in artifacts[sid] : TRUE
              n == request.sceneCount
          IN /\ a.imagePaths = {ScenePaths("image", n)}
             /\ a.videoPaths = {ScenePaths("video", n)}
             /\ \A k \in 1..n : /\ SceneImagePath(sid, k) \in files
                                /\ SceneVideoPath(sid, k) \in files
       /\ FinalPath(sid) \in files
       /\ sessions[sid].finalVideoPath = {FinalPath(sid)}

\* A run with an audio stage and an empty audio record has completed.
CompletedWithEmptyAudioRecord ==
    /\ pc = "done"
    /\ request.sceneCount = SceneBound
    /\ artifacts[sid] # {}
    /\ (CHOOSE x \in artifacts[sid] : TRUE).audioPaths = {AudioPaths({}, {})}

Terminal(id) == sessions[id].status \in {"completed", "failed"}

\* C11: once a session is 'completed' or 'failed', no later operation of
\* the orchestrator, a recovery restart of the same request included,
\* changes its status, its stages, its error or its final video path.
TerminalSessionsAbsorbing ==
    [][\A id \in DOMAIN sessions :
          Terminal(id)
          => /\ sessions'[id].status = sessions[id].status
             /\ sessions'[id].stages = sessions[id].stages
             /\ sessions'[id].error = sessions[id].error
             /\ sessions'[id].finalVideoPath = sessions[id].finalVideoPath]_vars

\* The restarted run is at work while the first session is 'failed'.
RestartedRunWorking ==
    /\ created = 2
    /\ sessions[1].status = "failed"
    /\ pc = "work"
    /\ stage = "images"

\* C12: when the terminal error matches no recovery strategy, generateVideo
\* throws it: the session stays 'failed', no session is created, no
\* collaborator is called, nothing happens for the request afterwards, and
\* the error thrown has the message recorded as the session's error.
UnrecoverableFailureIsFinal ==
    [][/\ (pc = "recover" /\ ~AttemptRecovery(TheError))
          => /\ pc' = "failed"
             /\ sessions' = sessions
             /\ created' = created
             /\ calls' = calls /\ faults' = faults
             /\ thrown' = thrown
             /\ sessions'[sid].status = "failed"
             /\ sessions'[sid].error = {TheError.msg}
       /\ pc = "failed" => UNCHANGED vars]_vars

\* generateVideo has thrown after a stage failed for good.
ThrownAfterStageFailure ==
    /\ pc = "failed"
    /\ sessions[sid].status = "failed"
    /\ \E i \in 1..StageCount(sid) : StageStatusOf(sid, i) = "error"

\* The paths a checkpoint document names.
DocumentPaths(a) ==
    UNION {{p[k] : k \in DOMAIN p} : p \in a.imagePaths \cup a.videoPaths}
    \cup a.finalVideoPath

\* C13: a recovery restart runs the pipeline again from the prompts stage
\* in a new session with the same request and reference image and every
\* stage 'pending'; the restarted run starts without a checkpoint and the
\* document a stage reads names only paths of its own session.
RestartIsFresh ==
    [][/\ (created' = created + 1 /\ created >= 1)
          => /\ sid' = created + 1
             /\ sid' \notin DOMAIN sessions
             /\ sessions'[sid'].request = sessions[sid].request
             /\ sessions'[sid'].characterImagePath = sessions[sid].characterImagePath
             /\ sessions'[sid'].status = "pending"
             /\ \A i \in 1..Len(sessions'[sid'].stages) :
                    sessions'[sid'].stages[i].status = "pending"
             /\ artifacts'[sid'] = {}
             /\ stage' = "prompts"
             /\ doc' = {}
       /\ \A a \in doc' : \A path \in DocumentPaths(a) : path.sid = sid']_vars

\* The restarted run reads its own checkpoint while the failed run's
\* checkpoint holds image paths.
RestartedRunReadsCheckpoint ==
    /\ created = 2
    /\ doc # {}
    /\ stage = "images"
    /\ \E a \in artifacts[1] : a.imagePaths # {}

Processing(id) == {i \in 1..StageCount(id) : StageStatusOf(id, i) = "processing"}

\* C14: at most one stage of a session is 'processing', in every state of
\* every session, across stage retries and failures.
OneStageProcessing ==
    \A id \in DOMAIN sessions : Cardinality(Processing(id)) <= 1

\* A stage after the first is 'processing' on its second attempt.
SecondAttemptProcessing ==
    /\ sid \in DOMAIN sessions
    /\ attempt = 2
    /\ \E i \in 2..StageCount(sid) : Processing(sid) = {i}

\* C15: the current-stage pointer of a session is the stage that is
\* 'processing' whenever there is one and is unset whenever there is none,
\* after every status write, the 'processing' writes of a retry included.
CurrentStagePointer ==
    \A id \in DOMAIN sessions :
        sessions[id].currentStage
            = {sessions[id].stages[i].stage : i \in Processing(id)}

\* C16: a stage's startTime is set by the first 'processing' write and no
\* later status write to the stage changes it; no stage is 'processing'
\* without a startTime.
StartTimeSetOnce ==
    [][\A id \in DOMAIN sessions : \A i \in 1..StageCount(id) :
          /\ sessions[id].stages[i].startTime # {}
                => sessions'[id].stages[i].startTime
                    = sessions[id].stages[i].startTime
          /\ sessions'[id].stages[i].status = "processing"
                => sessions'[id].stages[i].startTime # {}
          /\ (/\ sessions[id].stages[i].startTime = {}
              /\ sessions'[id].stages[i].startTime # {})
                => sessions'[id].stages[i].status = "processing"]_vars

\* A stage is 'processing' for the second time and has ended before.
ProcessingAfterError ==
    \E id \in DOMAIN sessions : \E i \in 1..StageCount(id) :
        /\ StageStatusOf(id, i) = "processing"
        /\ sessions[id].stages[i].endTime # {}
        /\ sessions[id].stages[i].startTime # {}

\* C17: a stage's endTime is set once: after the first 'completed' or
\* 'error' write has set it, no later write changes it.
EndTimeSetOnce ==
    [][\A id \in DOMAIN sessions : \A i \in 1..StageCount(id) :
          sessions[id].stages[i].endTime # {}
          => sessions'[id].stages[i].endTime
                = sessions[id].stages[i].endTime]_vars

StageNames(id) == [i \in 1..StageCount(id) |-> sessions[id].stages[i].stage]

\* C18: the stage list of a session is prompts, images, videos, merge when
\* neither voiceover nor music is requested and prompts, images, videos,
\* audio, merge otherwise, in every state; the orchestrator only runs
\* stages of the list and has run every stage of it, the audio stage
\* included, when the pipeline returns.
StageListFixed ==
    /\ \A id \in DOMAIN sessions :
        StageNames(id) =
            IF sessions[id].request.includeVoiceover
               \/ sessions[id].request.includeMusic
            THEN <<"prompts", "images", "videos", "audio", "merge">>
            ELSE <<"prompts", "images", "videos", "merge">>
    /\ pc \in {"begin", "work", "save"}
        => \E i \in 1..StageCount(sid) : StageNames(sid)[i] = stage
    /\ pc \in {"finish", "done"}
        => \A i \in 1..StageCount(sid) : StageStatusOf(sid, i) = "completed"

\* The audio stage of a voiceover-only request is being run.
AudioStageRunsForVoiceover ==
    /\ pc = "work"
    /\ stage = "audio"
    /\ request.includeVoiceover /\ ~request.includeMusic
    /\ StageStatusOf(sid, 4) = "processing"

ImagesStageStatus == StageStatusOf(sid, 2)

\* C19: in a run of the images stage the image generator is invoked for a
\* scene only after every earlier scene of the run has succeeded; when the
\* call for scene k fails the stage ends 'error' with scene k the last one
\* invoked; and every image path list in a checkpoint has N entries.
ImagesStageAborts ==
    /\ (pc = "work" /\ stage = "images")
        => /\ scene = Len(imagePaths) + 1
           /\ \A j \in 1..Len(imagePaths) :
                /\ imagePaths[j] = SceneImagePath(sid, j)
                /\ imagePaths[j] \in files
    /\ \A call \in lastImageCall :
        (sid \in DOMAIN sessions /\ ImagesStageStatus = "error")
        => /\ pc \in {"begin", "catch", "recover", "failed"}
           /\ call.scene = scene
           /\ Len(imagePaths) = scene - 1
    /\ \A id \in DOMAIN artifacts : \A a \in artifacts[id] :
        \A paths \in a.imagePaths :
            Len(paths) = sessions[id].request.sceneCount

\* The image call for the first of several scenes failed for good.
FirstSceneFailedForGood ==
    /\ pc = "catch"
    /\ stage = "images"
    /\ request.sceneCount > 1
    /\ \E call \in lastImageCall : call.scene = 1
    /\ ImagesStageStatus = "error"

NoRuleMatches(error) ==
    /\ error.code = "none"
    /\ error.msg \cap MessageMarks = {}

\* C20: handleServiceError returns a non-retryable error for every raw
\* error whose code is ENOENT, EACCES, EPERM or ENOSPC, whatever its
\* message holds, and for every raw error that matches none of its rules.
FileSystemErrorsFinal ==
    \A r \in rt.result :
        (\/ rt.error.code \in {"ENOENT", "EACCES", "EPERM", "ENOSPC"}
         \/ NoRuleMatches(rt.error))
        => ~r.retryable

\* min(baseDelay * backoffMultiplier^(k-1), maxDelay) of the run in rt, in
\* milliseconds; a stage backs off by the default policy.
PlainDelay(k) ==
    LET grown == (rt.opts.baseDelayMs * rt.opts.backoffMultiplier^(k - 1))
                    \div 10^(k - 1)
    IN IF grown <= rt.opts.maxDelayMs THEN grown ELSE rt.opts.maxDelayMs

\* C21: the delay slept after failed attempt k is at least
\* min(baseDelay * backoffMultiplier^(k-1), maxDelay) and at most that value
\* scaled by the jitter bound (a tenth more in withRetry, three tenths more
\* in the stage-level retry); the un-jittered delay is at most maxDelay and
\* does not decrease from one attempt to the next; and one delay is slept
\* before every attempt but the first, none after the last attempt made.
BackoffDelays ==
    \A r \in rt.result :
        /\ Len(r.slept) = r.calls - 1
        /\ rt.kind = "withRetry"
            => r.calls = WithRetry(rt.opts, rt.outcomes).calls
        /\ \A k \in 1..Len(r.slept) :
            /\ PlainDelay(k) <= rt.opts.maxDelayMs
            /\ k > 1 => PlainDelay(k - 1) <= PlainDelay(k)
            /\ IF rt.kind = "withRetry"
               THEN /\ PlainDelay(k) * 1000 <= r.slept[k]
                    /\ r.slept[k] <= PlainDelay(k) * 1100
               ELSE /\ PlainDelay(k) <= r.slept[k]
                    /\ r.slept[k] * 10 <= PlainDelay(k) * 13

\* withRetry slept twice and the second delay was cut to maxDelay.
SecondDelayCapped ==
    \E r \in rt.result :
        /\ rt.kind = "withRetry"
        /\ Len(r.slept) = 2
        /\ rt.opts.baseDelayMs * rt.opts.backoffMultiplier
            > rt.opts.maxDelayMs * 10
        /\ r.slept[2] >= rt.opts.maxDelayMs * 1000

MergeStageStatus == StageStatusOf(sid, StageCount(sid))

\* C22: when a scene clip or a music file recorded for the merge stage is
\* not on disk, the merge stage does not produce a result: it is on its
\* first attempt, it is not 'completed', and the run does not go on to
\* save, finish or completion.
MissingInputIsFatal ==
    (/\ stage = "merge"
     /\ sid \in DOMAIN artifacts
     /\ MergeInputs(artifacts[sid]) \ files # {})
    => /\ attempt = 1
       /\ MergeStageStatus # "completed"
       /\ pc \notin {"save", "finish", "done"}

\* C23: the merge stage's work is invoked at most once in a session run:
\* the merge stage is never on a second attempt.
MergeRunsOnce ==
    stage = "merge" => attempt = 1

\* C24: the i-th input of the concat command is the i-th recorded clip, for
\* every clip list of 1..5 clips (for the list of the videos stage, the clip
\* of scene i); the graph names the inputs 0..N-1 and concatenates N of
\* them; with no clip list or an empty one the assembler is not invoked.
ConcatKeepsSceneOrder ==
    \A r \in rt.result :
        rt.kind = "concat"
        => LET d == CHOOSE a \in rt.document : TRUE
           IN IF d.videoPaths = {} \/ d.videoPaths = {<<>>}
              THEN r.rejected /\ r.engine = 0
              ELSE LET clips == CHOOSE l \in d.videoPaths : TRUE
                   IN /\ r.engine = 1
                      /\ ~r.rejected
                      /\ r.n = Len(clips)
                      /\ Len(r.inputs) = Len(clips)
                      /\ Len(r.labels) = Len(clips)
                      /\ \A i \in 1..Len(clips) :
                            /\ r.inputs[i] = clips[i]
                            /\ r.labels[i] = i - 1

\* The clips of MaxScenes scenes, in scene order, were concatenated.
FiveClipsConcatenated ==
    \E r \in rt.result :
        /\ rt.kind = "concat"
        /\ r.n = MaxScenes
        /\ \A i \in 1..MaxScenes : r.inputs[i] = SceneVideoPath(1, i)

\* The audio sources of the mix run in rt that are available.
AvailableSources ==
    (IF rt.hasAudio THEN 1 ELSE 0)
    + (IF rt.options.voiceoverPath \cap rt.disk # {} THEN 1 ELSE 0)
    + (IF rt.options.musicPath \cap rt.disk # {} THEN 1 ELSE 0)

SuppliedFilesOnDisk ==
    (rt.options.voiceoverPath \cup rt.options.musicPath) \subseteq rt.disk

\* C25: for every combination of original audio present, voiceover supplied
\* and music supplied (the supplied files on disk), the graph has the mixer
\* node exactly when two or more sources are available, and then over that
\* many inputs; a single source goes to the output without the mixer; and
\* with no recorded audio source the merge stage copies the concatenation.
MixGraphShape ==
    \A r \in rt.result :
        /\ (rt.kind = "mix" /\ SuppliedFilesOnDisk)
            => LET amix == {m \in UNION {g.mixer : g \in r.filters} :
                                m.kind = "amix"}
               IN /\ amix # {} <=> AvailableSources >= 2
                  /\ \A m \in amix : m.inputs = AvailableSources
                  /\ \A g \in r.filters : Len(g.sources) = AvailableSources
                  /\ AvailableSources = 1
                        => \/ r.filters = {} /\ r.audioMap = "0:a?"
                           \/ \E g \in r.filters :
                                g.mixer = {[kind |-> "anull", inputs |-> 1]}
                  /\ Len(r.inputs) = 1 + Cardinality(rt.options.voiceoverPath
                                            \cup rt.options.musicPath)
        /\ (rt.kind = "merge"
            /\ \A a \in rt.audioPaths :
                a.musicPath = {} /\ a.voiceoverPaths = {})
            => r.final = "copy" /\ r.mix = {}

\* Music alone went to the output through anull, not through the mixer.
MusicAlonePassedThrough ==
    \E r \in rt.result :
        /\ rt.kind = "mix"
        /\ ~rt.hasAudio
        /\ rt.options.voiceoverPath = {}
        /\ rt.options.musicPath \cap rt.disk # {}
        /\ \E g \in r.filters : g.mixer = {[kind |-> "anull", inputs |-> 1]}

\* C26: in the mix graph each source has its own configured gain, a gain
\* of 0 included, and when none is configured music has 0.5, voice 1.0 and
\* the original audio 0.5.
IndependentGains ==
    \A r \in rt.result :
        rt.kind = "mix"
        => \A g \in r.filters : \A i \in 1..Len(g.sources) :
            LET source == g.sources[i]
            IN /\ source.label = "original" => source.volume = 5
               /\ source.label = "voice"
                    => source.volume \in
                        (IF rt.options.voiceVolume = {}
                         THEN {10} ELSE rt.options.voiceVolume)
               /\ source.label = "music"
                    => source.volume \in
                        (IF rt.options.musicVolume = {}
                         THEN {5} ELSE rt.options.musicVolume)

\* C27: in the videos stage the video generator is called once per scene,
\* for scene i with scene i's image, scene i's video-motion prompt and a
\* clip duration equal to the configured scene duration.
VideoCallArguments ==
    \A r \in rt.result :
        rt.kind = "videos"
        => /\ Len(r) = Len(rt.scenePrompts)
           /\ \A i \in 1..Len(r) :
                /\ r[i].image_url = SceneImagePath(1, i)
                /\ r[i].prompt = <<"videoPrompt", i>>
                /\ r[i].duration = rt.sceneDurationSeconds

\* C28: the music synthesizer is called only for a request with
\* includeMusic, at most once, for sceneCount x sceneDuration x 1000
\* milliseconds; without includeMusic the audio stage saves an empty audio
\* record without calling it.
MusicLength ==
    \A r \in rt.result :
        rt.kind = "audio"
        => /\ r.music # <<>> => rt.request.includeMusic
           /\ Len(r.music) <= 1
           /\ (rt.request.includeMusic /\ rt.prompts.musicPrompt)
                => Len(r.music) = 1
           /\ \A i \in 1..Len(r.music) :
                r.music[i].musicLengthMs
                    = rt.request.sceneCount * rt.sceneDurationSeconds * 1000
           /\ ~rt.request.includeMusic
                => r.music = <<>> /\ r.audioPaths = AudioPaths({}, {})

\* Music was asked for several scenes of a duration other than one second.
MusicForSeveralScenes ==
    \E r \in rt.result :
        /\ rt.kind = "audio"
        /\ rt.request.sceneCount > 1
        /\ rt.sceneDurationSeconds > 1
        /\ Len(r.music) = 1

StageField(st) ==
    CASE st = "prompts" -> "prompts"
      [] st = "images" -> "imagePaths"
      [] st = "videos" -> "videoPaths"
      [] st = "audio" -> "audioPaths"
      [] st = "merge" -> "finalVideoPath"

\* C30: a field of a session's checkpoint, once written, keeps its value in
\* every later step, through stage completions and stage retries; and a
\* write to the checkpoint changes the field of the stage that writes and
\* no other.
CheckpointAppendOnly ==
    [][\A id \in DOMAIN artifacts :
          /\ \A a \in artifacts[id] :
                \E b \in artifacts'[id] :
                    \A f \in DOMAIN a : a[f] # {} => b[f] = a[f]
          /\ artifacts'[id] # artifacts[id]
                => /\ id = sid
                   /\ \A b \in artifacts'[id] :
                        LET a == IF artifacts[id] = {} THEN EmptyArtifacts
                                 ELSE CHOOSE x \in artifacts[id] : TRUE
                        IN \A f \in DOMAIN b \ {StageField(stage)} :
                                b[f] = a[f]]_vars

\* After a retried prompts stage the checkpoint holds the prompts, the
\* image paths and the video paths.
ThreeFieldsAfterRetry ==
    /\ calls["prompt"] >= 2
    /\ sid \in DOMAIN artifacts
    /\ \E a \in artifacts[sid] :
        a.prompts # {} /\ a.imagePaths # {} /\ a.videoPaths # {}

\* --------------------------------------------------------------- progress

CompletedStages(id) ==
    Cardinality({i \in 1..StageCount(id) : StageStatusOf(id, i) = "completed"})

\* p is 100 * part / whole rounded to the nearest integer, halves upwards.
RoundedPercent(p, part, whole) ==
    /\ 2 * whole * p <= 200 * part + whole
    /\ 200 * part + whole < 2 * whole * (p + 1)

\* C31: the progress of a session is the rounded percentage of completed
\* stages among the stages of its own list, no step lowers it, and it is 100
\* exactly when every stage of the session is 'completed'.
ProgressMonotone ==
    [][\A id \in DOMAIN sessions :
          /\ RoundedPercent(GetSessionProgress(sessions, id),
                            CompletedStages(id), StageCount(id))
          /\ GetSessionProgress(sessions', id) >= GetSessionProgress(sessions, id)
          /\ GetSessionProgress(sessions, id) = 100
                <=> \A i \in 1..StageCount(id) :
                        StageStatusOf(id, i) = "completed"]_vars

\* The session of a restart completed all its stages while the session that
\* failed before it stopped part of the way.
ProgressHundredAfterRestart ==
    /\ \E id \in DOMAIN sessions : GetSessionProgress(sessions, id) = 100
    /\ \E id \in DOMAIN sessions :
          /\ sessions[id].status = "failed"
          /\ GetSessionProgress(sessions, id) \in 1..99

\* ------------------------------------------------- the reaper on its own

\* Times are counted in half hours from a local midnight, in a zone without
\* daylight saving; maxAgeHours is given in half hours as well (twice its
\* value), so that thresholds of whole and of half hours are both covered.
ReaperSessions == 2
ClockBound == 3
ThresholdBound == 2

\* Date.prototype.getHours
GetHours(t) == (t \div 2) % 24

\* Date.prototype.setHours(h) with h = twiceHours / 2: the hour is truncated
\* towards zero to a whole number, the minutes are kept, and an hour below 0
\* counts back into the day before.
SetHours(t, twiceHours) ==
    LET whole == IF twiceHours >= 0 THEN twiceHours \div 2
                 ELSE 0 - ((0 - twiceHours) \div 2)
    IN (t - (t % (2 * 24))) + 2 * whole + (t % 2)

\* cutoffTime.setHours(cutoffTime.getHours() - maxAgeHours)
CutoffTime(t, twiceMaxAge) == SetHours(t, 2 * GetHours(t) - twiceMaxAge)

\* cleanupOldSessions: deletes every session created before the cutoff and
\* returns the number deleted.
CleanupOldSessions(store, twiceMaxAge, t) ==
    LET old == {id \in DOMAIN store :
                    store[id].createdAt < CutoffTime(t, twiceMaxAge)}
    IN [store |-> [id \in DOMAIN store \ old |-> store[id]],
        cleanedCount |-> Cardinality(old)]

\* getSession: the session or undefined.
GetSession(store, id) == IF id \in DOMAIN store THEN {store[id]} ELSE {}

\* getAllActiveSessions
GetAllActiveSessions(store) ==
    {id \in DOMAIN store : store[id].status \in {"processing", "pending"}}

\* rt.phase is the position of each generateVideo call: "dirs" while
\* ensureSessionDirectories is awaited, "prompts" while the pipeline runs
\* (its first stage is started), "done" after the last status write;
\* rt.dropped tells whether a store update of a call found its session
\* gone; rt.result is the outcome of a cleanup that has just run.
ReaperInit ==
    /\ PipelineInit
    /\ request = GenerationRequest(1, FALSE, FALSE, {})
    /\ rt = [kind |-> "reap", phase |-> <<>>, dropped |-> FALSE, result |-> {}]

ReaperCreate ==
    /\ created < ReaperSessions
    /\ created' = created + 1
    /\ sessions' = CreateSession(sessions, created + 1, request, UploadPath, now)
    /\ rt' = [rt EXCEPT !.phase = Append(@, "dirs"), !.result = {}]
    /\ UNCHANGED <<request, artifacts, files, now, pc, sid, stage, attempt,
                   locals, thrown, returned, faults, history>>

ReaperAdvance ==
    /\ now < ClockBound
    /\ now' = now + 1
    /\ rt' = [rt EXCEPT !.result = {}]
    /\ UNCHANGED <<request, sessions, created, artifacts, files, pc, sid,
                   stage, attempt, locals, thrown, returned, faults, history>>

\* ensureSessionDirectories resolves: updateSessionStatus(sessionId,
\* 'processing') and, before the next await, the 'processing' write of the
\* prompts stage.
ReaperProcessing ==
    /\ \E id \in DOMAIN rt.phase :
          /\ rt.phase[id] = "dirs"
          /\ sessions' = UpdateStageStatus(
                            UpdateSessionStatus(sessions, id, "processing", {}, now),
                            id, "prompts", "processing", "", {}, now)
          /\ rt' = [rt EXCEPT !.phase[id] = "prompts", !.result = {},
                              !.dropped = @ \/ id \notin DOMAIN sessions]
    /\ UNCHANGED <<request, created, artifacts, files, now, pc, sid, stage,
                   attempt, locals, thrown, returned, faults, history>>

\* The last status write of generateVideo: 'completed' or 'failed'.
ReaperFinish ==
    /\ \E id \in DOMAIN rt.phase :
          /\ rt.phase[id] = "prompts"
          /\ \E st \in {"completed", "failed"} :
                sessions' = UpdateSessionStatus(sessions, id, st,
                                IF st = "failed" THEN {"failed"} ELSE {}, now)
          /\ rt' = [rt EXCEPT !.phase[id] = "done", !.result = {},
                              !.dropped = @ \/ id \notin DOMAIN sessions]
    /\ UNCHANGED <<request, created, artifacts, files, now, pc, sid, stage,
                   attempt, locals, thrown, returned, faults, history>>

RunCleanup ==
    /\ \E m \in 0..ThresholdBound :
          LET r == CleanupOldSessions(sessions, m, now)
          IN /\ sessions' = r.store
             /\ rt' = [rt EXCEPT !.result =
                          {[before |-> sessions, after |-> r.store,
                            count |-> r.cleanedCount, twiceMaxAge |-> m,
                            at |-> now]}]
    /\ UNCHANGED <<request, created, artifacts, files, now, pc, sid, stage,
                   attempt, locals, thrown, returned, faults, history>>

ReaperNext ==
    \/ ReaperCreate
    \/ ReaperAdvance
    \/ ReaperProcessing
    \/ ReaperFinish
    \/ RunCleanup

ReaperSpec == ReaperInit /\ [][ReaperNext]_vars

\* The sessions of a store older than the threshold at time t.
OlderThan(store, twiceMaxAge, t) ==
    {id \in DOMAIN store : t - store[id].createdAt > twiceMaxAge}

\* C32: the reaper removes exactly the sessions whose age since creation
\* exceeds the given threshold, returns how many it removed and leaves every
\* other session unchanged; a removed id is afterwards absent for getSession.
ReaperRemovesExactlyOld ==
    \A r \in rt.result :
        rt.kind = "reap"
        => LET old == OlderThan(r.before, r.twiceMaxAge, r.at)
           IN /\ DOMAIN r.after = DOMAIN r.before \ old
              /\ r.count = Cardinality(old)
              /\ \A id \in DOMAIN r.after : r.after[id] = r.before[id]
              /\ \A id \in old : GetSession(r.after, id) = {}

\* C40: the reaper never removes a session whose pipeline is still running:
\* a cleanup keeps every 'pending' or 'processing' session, every call that
\* has not made its last status write finds its session through getSession,
\* and no store update of a running pipeline finds its session gone.
RunningSessionsRetrievable ==
    rt.kind = "reap"
    => /\ \A r \in rt.result :
              GetAllActiveSessions(r.before) \subseteq DOMAIN r.after
       /\ \A id \in DOMAIN rt.phase :
              rt.phase[id] # "done" => GetSession(sessions, id) # {}
       /\ ~rt.dropped

\* ------------------------------------------------ what the caller receives

Jobs == {"a", "b"}

JobRequests == {GenerationRequest(1, FALSE, FALSE, {})}

\* The rejections met by all calls together.
JobFaults == 1

\* What a stage's work, or ensureSessionDirectories, rejects with.
JobErrors == {ErrUnavailable, ErrNoSpace, ErrUnauthorized}

\* The position of a call: "idle" before the request arrives, "dirs" while
\* ensureSessionDirectories is awaited, "work" while the work of `stage` is
\* awaited, "saving" while the merge stage awaits its checkpoint write,
\* "next" after a stage function returned, "sleep" while executeWithRetry
\* waits, "recover" while attemptRecovery is awaited, "done" when the call
\* returned `returned`, "failed" when it threw.
IdleJob ==
    [phase |-> "idle", sid |-> 0, request |-> GenerationRequest(1, FALSE, FALSE, {}),
     stage |-> "prompts", attempt |-> 1, thrown |-> {}, returned |-> {}]

ConcurrentInit ==
    /\ PipelineInit
    /\ request = GenerationRequest(1, FALSE, FALSE, {})
    /\ rt = [kind |-> "jobs", job |-> [j \in Jobs |-> IdleJob]]

jobFrame ==
    <<request, artifacts, files, pc, sid, stage, attempt, locals, thrown,
      returned, history>>

\* generateVideo up to its first await: createSession with a fresh id.
JobEnter(j, req) ==
    /\ created' = created + 1
    /\ sessions' = CreateSession(sessions, created + 1, req, UploadPath, now)
    /\ rt' = [rt EXCEPT !.job[j] =
                [@ EXCEPT !.phase = "dirs", !.sid = created + 1,
                          !.request = req, !.stage = "prompts",
                          !.attempt = 1, !.thrown = {}]]

\* The route calls generateVideo.  The clock is seen to move between two
\* requests, so that a write is stamped with the arrival time of the latest
\* request.
JobStart(j) ==
    /\ rt.job[j].phase = "idle"
    /\ \E req \in JobRequests : JobEnter(j, req)
    /\ now' = now + 1
    /\ UNCHANGED <<faults, jobFrame>>

\* ensureSessionDirectories resolves: the session is 'processing' and the
\* prompts stage function runs up to its first await.
JobDirsOk(j) ==
    /\ rt.job[j].phase = "dirs"
    /\ sessions' = UpdateStageStatus(
                      UpdateSessionStatus(sessions, rt.job[j].sid, "processing",
                                          {}, now),
                      rt.job[j].sid, "prompts", "processing",
                      ProcessingMessage("prompts"), {}, now)
    /\ rt' = [rt EXCEPT !.job[j].phase = "work"]
    /\ UNCHANGED <<created, now, faults, jobFrame>>

\* ensureSessionDirectories rejects: the catch of generateVideo marks the
\* session 'failed' and awaits attemptRecovery.
JobDirsFail(j) ==
    /\ rt.job[j].phase = "dirs"
    /\ faults < JobFaults
    /\ \E e \in DiskErrors :
          /\ sessions' = UpdateSessionStatus(sessions, rt.job[j].sid, "failed",
                                             {ToAppError(e, "").msg}, now)
          /\ rt' = [rt EXCEPT !.job[j].phase = "recover",
                              !.job[j].thrown = {ToAppError(e, "")}]
    /\ faults' = faults + 1
    /\ UNCHANGED <<created, now, jobFrame>>

\* mergeVideoContent has the final video: updateSessionFinalVideo, then the
\* checkpoint write is awaited.
JobFinalVideo(j) ==
    /\ rt.job[j].phase = "work"
    /\ rt.job[j].stage = "merge"
    /\ sessions' = UpdateSessionFinalVideo(sessions, rt.job[j].sid,
                                           FinalPath(rt.job[j].sid), now)
    /\ rt' = [rt EXCEPT !.job[j].phase = "saving"]
    /\ UNCHANGED <<created, now, faults, jobFrame>>

\* The work of a stage is done: the 'completed' write of the stage function.
JobStageOk(j) ==
    /\ rt.job[j].phase = IF rt.job[j].stage = "merge" THEN "saving" ELSE "work"
    /\ sessions' = UpdateStageStatus(sessions, rt.job[j].sid, rt.job[j].stage,
                                     "completed",
                                     CompletedMessage(rt.job[j].stage), {}, now)
    /\ rt' = [rt EXCEPT !.job[j].phase = "next"]
    /\ UNCHANGED <<created, now, faults, jobFrame>>

\* executeGenerationPipeline goes on: the next stage function runs up to its
\* first await or, after the merge stage, generateVideo marks the session
\* 'completed' and returns its id.
JobNext(j) ==
    /\ rt.job[j].phase = "next"
    /\ IF rt.job[j].stage = "merge"
       THEN /\ sessions' = UpdateSessionStatus(sessions, rt.job[j].sid,
                                               "completed", {}, now)
            /\ rt' = [rt EXCEPT !.job[j].phase = "done",
                                !.job[j].returned = {rt.job[j].sid}]
       ELSE LET following == NextStage(rt.job[j].request, rt.job[j].stage)
            IN /\ sessions' = UpdateStageStatus(sessions, rt.job[j].sid,
                                  following, "processing",
                                  ProcessingMessage(following), {}, now)
               /\ rt' = [rt EXCEPT !.job[j].phase = "work",
                                   !.job[j].stage = following,
                                   !.job[j].attempt = 1]
    /\ UNCHANGED <<created, now, faults, jobFrame>>

\* The work of a stage rejects: the 'error' write of the stage function's
\* catch; executeWithRetry then sleeps before the next attempt or throws,
\* and on a throw the catch of generateVideo marks the session 'failed'.
JobStageFail(j) ==
    /\ rt.job[j].phase = "work"
    /\ faults < JobFaults
    /\ \E e \in JobErrors :
          LET failed == UpdateStageStatus(sessions, rt.job[j].sid,
                            rt.job[j].stage, "error",
                            FailureMessage(rt.job[j].stage), {e.msg}, now)
              appError == ToAppError(e, "")
          IN IF ShouldRetry(appError, rt.job[j].attempt, StageMaxRetries)
             THEN /\ sessions' = failed
                  /\ rt' = [rt EXCEPT !.job[j].phase = "sleep"]
             ELSE /\ sessions' = UpdateSessionStatus(failed, rt.job[j].sid,
                                     "failed", {appError.msg}, now)
                  /\ rt' = [rt EXCEPT !.job[j].phase = "recover",
                                      !.job[j].thrown = {appError}]
    /\ faults' = faults + 1
    /\ UNCHANGED <<created, now, jobFrame>>

\* The sleep of executeWithRetry ends: the stage function is called again.
JobRetry(j) ==
    /\ rt.job[j].phase = "sleep"
    /\ sessions' = UpdateStageStatus(sessions, rt.job[j].sid, rt.job[j].stage,
                                     "processing",
                                     ProcessingMessage(rt.job[j].stage), {}, now)
    /\ rt' = [rt EXCEPT !.job[j].phase = "work",
                        !.job[j].attempt = @ + 1]
    /\ UNCHANGED <<created, now, faults, jobFrame>>

\* attemptRecovery returns: generateVideo calls itself with the same request
\* or throws the error to the route.
JobRecover(j) ==
    /\ rt.job[j].phase = "recover"
    /\ IF \A e \in rt.job[j].thrown : AttemptRecovery(e)
       THEN JobEnter(j, rt.job[j].request)
       ELSE /\ rt' = [rt EXCEPT !.job[j].phase = "failed"]
            /\ UNCHANGED <<sessions, created>>
    /\ UNCHANGED <<now, faults, jobFrame>>

ConcurrentNext ==
    \E j \in Jobs :
          \/ JobStart(j)
          \/ JobDirsOk(j)
          \/ JobDirsFail(j)
          \/ JobFinalVideo(j)
          \/ JobStageOk(j)
          \/ JobNext(j)
          \/ JobStageFail(j)
          \/ JobRetry(j)
          \/ JobRecover(j)

ConcurrentSpec == ConcurrentInit /\ [][ConcurrentNext]_vars

\* config.maxConcurrentJobs (MAX_CONCURRENT_JOBS unset)
MaxConcurrentJobs == 1

\* C33: at no time are more than maxConcurrentJobs sessions 'processing' in
\* one server instance, whatever number of requests arrive concurrently.
ConcurrentJobsCapped ==
    rt.kind = "jobs"
    => Cardinality({id \in DOMAIN sessions :
                        sessions[id].status = "processing"}) <= MaxConcurrentJobs

\* The invariants of one session s of a store: its stage list is the one of
\* its request, at most one stage is 'processing', a stage that has left
\* 'pending' follows completed stages only, a 'pending' session has started
\* no stage, and a 'completed' session has every stage 'completed' and
\* its final path set.
PerSessionInvariants(s) ==
    /\ [i \in DOMAIN s.stages |-> s.stages[i].stage]
          = [i \in DOMAIN InitialStages(s.request) |->
                InitialStages(s.request)[i].stage]
    /\ Cardinality({i \in DOMAIN s.stages : s.stages[i].status = "processing"}) <= 1
    /\ \A i \in DOMAIN s.stages :
          s.stages[i].status # "pending"
            => \A k \in 1..(i - 1) : s.stages[k].status = "completed"
    /\ s.status = "pending"
          => \A i \in DOMAIN s.stages : s.stages[i].status = "pending"
    /\ s.status = "completed"
          => /\ \A i \in DOMAIN s.stages : s.stages[i].status = "completed"
             /\ s.finalVideoPath # {}

\* C35: with the calls of generateVideo for different sessions interleaved
\* at their suspension points, a step of one call changes no session but
\* its own (status, stage list, stage statuses, timestamps, current-stage
\* pointer and final path of every other session stay as they were), no
\* session leaves the store, and the per-session invariants hold for every
\* session after every step.
SessionIsolation ==
    [][rt.kind = "jobs"
       => /\ DOMAIN sessions \subseteq DOMAIN sessions'
          /\ \A id \in DOMAIN sessions :
                sessions'[id] # sessions[id]
                  => \E j \in Jobs : /\ rt.job[j].sid = id
                                     /\ rt'.job[j] # rt.job[j]
                                     /\ \A o \in Jobs \ {j} :
                                            rt'.job[o] = rt.job[o]
          /\ \A id \in DOMAIN sessions' : PerSessionInvariants(sessions'[id])]_vars

\* Two sessions are 'processing' at once, each in a different stage, and a
\* stage of one of them has been retried after an error.
TwoPipelinesInterleaved ==
    /\ rt.kind = "jobs"
    /\ \E a, b \in DOMAIN sessions :
          /\ a # b
          /\ sessions[a].status = "processing"
          /\ sessions[b].status = "processing"
          /\ sessions[a].currentStage # sessions[b].currentStage
          /\ \E i \in DOMAIN sessions[a].stages :
                /\ sessions[a].stages[i].status = "processing"
                /\ sessions[a].stages[i].endTime # {}
          /\ \E i \in DOMAIN sessions[b].stages :
                sessions[b].stages[i].status = "processing"

\* C38: every input index read by the audio mix graph names an input that
\* was added to the command, for every combination of voiceover and music
\* supplied or not and on disk or not: each source reads an index below the
\* number of inputs, the original audio reads the video, the voice label
\* reads the voiceover file and the music label reads the music file.
MixInputsExist ==
    \A r \in rt.result :
        rt.kind = "mix"
        => \A g \in r.filters : \A i \in 1..Len(g.sources) :
            LET source == g.sources[i]
            IN /\ source.input < Len(r.inputs)
               /\ source.label = "original" => source.input = 0
               /\ source.label = "voice"
                    => {r.inputs[source.input + 1]} = rt.options.voiceoverPath
               /\ source.label = "music"
                    => {r.inputs[source.input + 1]} = rt.options.musicPath

\* ------------------------------------------------- the crossfade graph

\* The labels of a filter graph: [i:v], [vi] and [outv].
ClipLabel(i) == [kind |-> "clip", n |-> i]

ChainLabel(i) == [kind |-> "v", n |-> i]

OutLabel == [kind |-> "outv", n |-> 0]

\* The offset of every transition counted from the end of its own clip.
CrossfadeOffsetNext(i, sceneDuration) == (i + 1) * sceneDuration

\* const offset = i * sceneDuration
CrossfadeOffset(i, sceneDuration) == i * sceneDuration

\* buildCrossfadeVideoFilter(videoCount, transitionDuration, sceneDuration):
\* the filters of the graph in the order they are joined; transition i of
\* the code is element i + 1.
BuildCrossfadeVideoFilter(videoCount, transitionDuration, sceneDuration) ==
    IF videoCount < 2
    THEN <<[prev |-> ClipLabel(0), next |-> {}, filter |-> "null",
            duration |-> 0, offset |-> 0, out |-> OutLabel]>>
    ELSE [k \in 1..(videoCount - 1) |->
            LET i == k - 1
            IN [prev |-> IF i = 0 THEN ClipLabel(0) ELSE ChainLabel(i),
                next |-> {ClipLabel(i + 1)},
                filter |-> "xfade",
                duration |-> transitionDuration,
                offset |-> CrossfadeOffset(i, sceneDuration),
                out |-> IF i = videoCount - 2 THEN OutLabel
                        ELSE ChainLabel(i + 1)]]

\* Transition durations a caller passes, in tenths of a second.
TransitionDurations == {5, 10}

\* The arguments of buildCrossfadeVideoFilter: every clip count up to the
\* most scenes a request may have, a transition duration and a scene
\* duration in seconds.
CrossfadeInit ==
    /\ PipelineInit
    /\ request = GenerationRequest(1, FALSE, FALSE, {})
    /\ \E n \in 0..MaxScenes, t \in TransitionDurations, d \in 1..DurationBound :
          rt = [kind |-> "crossfade", videoCount |-> n,
                transitionDuration |-> t, sceneDuration |-> d, result |-> {}]

RunCrossfade ==
    /\ rt.kind = "crossfade"
    /\ rt.result = {}
    /\ rt' = [rt EXCEPT !.result =
                {BuildCrossfadeVideoFilter(rt.videoCount, rt.transitionDuration,
                                           rt.sceneDuration)}]
    /\ UNCHANGED pipelineVars

CrossfadeNext == RunCrossfade

CrossfadeSpec == CrossfadeInit /\ [][CrossfadeNext]_vars

\* The labels a filter of the graph reads.
ReadBy(f) == {f.prev} \cup f.next

\* C36: for every clip count N >= 2 the graph has N-1 transitions in one
\* chain: the first takes clips 0 and 1, each later one takes the output of
\* the one before it and the next clip, every intermediate label is written
\* once and read once, the last transition writes the output label, and
\* transition i starts at i x sceneDuration; for N < 2 the graph passes
\* clip 0 to the output.
CrossfadeChain ==
    \A r \in rt.result :
        rt.kind = "crossfade"
        => IF rt.videoCount >= 2
           THEN /\ Len(r) = rt.videoCount - 1
                /\ r[1].prev = ClipLabel(0)
                /\ \A k \in 1..Len(r) :
                      /\ r[k].filter = "xfade"
                      /\ r[k].next = {ClipLabel(k)}
                      /\ r[k].duration = rt.transitionDuration
                      /\ r[k].offset = (k - 1) * rt.sceneDuration
                      /\ k > 1 => r[k].prev = r[k - 1].out
                      /\ r[k].out = OutLabel <=> k = Len(r)
                      /\ k < Len(r)
                           => /\ r[k].out.kind = "v"
                              /\ Cardinality({m \in 1..Len(r) :
                                                r[m].out = r[k].out}) = 1
                              /\ Cardinality({m \in 1..Len(r) :
                                                r[k].out \in ReadBy(r[m])}) = 1
           ELSE /\ Len(r) = 1
                /\ r[1].prev = ClipLabel(0)
                /\ r[1].next = {}
                /\ r[1].filter = "null"
                /\ r[1].out = OutLabel

\* The graph for the most clips a request may have, with its four-step chain.
FiveClipsCrossfaded ==
    \E r \in rt.result :
        /\ rt.kind = "crossfade"
        /\ rt.videoCount = MaxScenes
        /\ Len(r) = MaxScenes - 1
        /\ r[Len(r)].offset > r[1].offset

\* ------------------------------------------------------ the rate limiter

\* Times are counted in seconds (the sleep of waitForLimit is one tick).
LimiterClock == 3
LimitBound == 2
WindowBound == 2
GrantBound == 3

Services == {"kling", "elevenlabs", "custom"}

\* setLimit(service, maxRequests, windowMs)
SetLimit(limits, service, maxRequests, window) ==
    [limits EXCEPT ![service] = {[maxRequests |-> maxRequests, windowMs |-> window]}]

\* The limits the constructor sets, for the services considered here; a
\* service that was never given a limit has none.
DefaultLimits ==
    SetLimit(SetLimit([s \in Services |-> {}], "kling", 10, 60),
             "elevenlabs", 100, 60)

\* serviceRequests.filter(time => now - time < limit.windowMs)
RecentRequests(times, t, limit) ==
    SelectSeq(times, LAMBDA x : t - x < limit.windowMs)

\* The test of the limit letting one request more through.
LimitReachedAbove(recent, limit) == Len(recent) > limit.maxRequests

\* recentRequests.length >= limit.maxRequests
LimitReached(recent, limit) == Len(recent) >= limit.maxRequests

\* checkLimit(service) at time t: what it returns and the request times it
\* leaves in the map.
CheckLimit(limits, requests, service, t) ==
    IF limits[service] = {}
    THEN [allowed |-> TRUE, requests |-> requests]
    ELSE LET limit == CHOOSE l \in limits[service] : TRUE
             recent == RecentRequests(requests[service], t, limit)
         IN IF LimitReached(recent, limit)
            THEN [allowed |-> FALSE, requests |-> requests]
            ELSE [allowed |-> TRUE,
                  requests |-> [requests EXCEPT ![service] = Append(recent, t)]]

\* A limiter after construction and one setLimit for kling; rt.granted
\* lists, for the services with a limit, the times of the calls that
\* returned true; rt.last is the latest call with the request times it found.
LimiterInit ==
    /\ PipelineInit
    /\ request = GenerationRequest(1, FALSE, FALSE, {})
    /\ \E m \in 1..LimitBound, w \in 1..WindowBound :
          rt = [kind |-> "limiter",
                limits |-> SetLimit(DefaultLimits, "kling", m, w),
                requests |-> [s \in Services |-> <<>>],
                granted |-> [s \in Services |-> <<>>],
                last |-> {}]

\* Time passes; the one-second sleep of waitForLimit is one such step.
LimiterAdvance ==
    /\ rt.kind = "limiter"
    /\ now < LimiterClock
    /\ now' = now + 1
    /\ UNCHANGED <<request, sessions, created, artifacts, files, pc, sid,
                   stage, attempt, locals, thrown, returned, faults, history,
                   rt>>

\* One call of checkLimit, by a caller or by the loop of waitForLimit.
RunCheckLimit ==
    /\ rt.kind = "limiter"
    /\ \E s \in Services :
          /\ Len(rt.requests[s]) < GrantBound
          /\ Len(rt.granted[s]) < GrantBound
          /\ LET r == CheckLimit(rt.limits, rt.requests, s, now)
             IN rt' = [rt EXCEPT
                        !.requests = r.requests,
                        !.granted[s] = IF r.allowed /\ rt.limits[s] # {}
                                       THEN Append(@, now) ELSE @,
                        !.last = {[service |-> s, allowed |-> r.allowed,
                                   before |-> rt.requests]}]
    /\ UNCHANGED pipelineVars

LimiterNext == LimiterAdvance \/ RunCheckLimit

LimiterSpec == LimiterInit /\ [][LimiterNext]_vars

\* The calls for a service that returned true in the window (t - w, t].
GrantedInWindow(service, t, w) ==
    Cardinality({i \in DOMAIN rt.granted[service] :
                    /\ t - w < rt.granted[service][i]
                    /\ rt.granted[service][i] <= t})

\* C37: for every service with a configured limit, the calls of checkLimit
\* that returned true within any window of length windowMs are at most
\* maxRequests; a call that returns false leaves the recorded requests as
\* they were; a call for one service leaves the requests of every other
\* service as they were; a service without a limit is always allowed.
SlidingWindowLimit ==
    rt.kind = "limiter"
    => /\ \A s \in Services : \A l \in rt.limits[s] :
            \A t \in 1..(LimiterClock + l.windowMs) :
                GrantedInWindow(s, t, l.windowMs) <= l.maxRequests
       /\ \A c \in rt.last :
            /\ ~c.allowed => rt.requests = c.before
            /\ \A s \in Services \ {c.service} :
                  rt.requests[s] = c.before[s]
            /\ rt.limits[c.service] = {}
                  => c.allowed /\ rt.requests = c.before

\* A call for kling was refused while its window was full, after more
\* calls had been allowed over time than one window admits.
RefusedInFullWindow ==
    /\ rt.kind = "limiter"
    /\ \E c \in rt.last :
          /\ c.service = "kling"
          /\ ~c.allowed
          /\ \A l \in rt.limits["kling"] :
                Len(rt.granted["kling"]) > l.maxRequests

\* ------------------------------------------------ the shape of a failure

ErroredStages(id) ==
    {i \in 1..StageCount(id) : StageStatusOf(id, i) = "error"}

\* C39: in every state a 'failed' session has no stage 'processing', its
\* current-stage pointer unset, at most one stage 'error' with every stage
\* before it 'completed' and every stage after it 'pending', and a
\* non-empty error message.
FailedSessionShape ==
    \A id \in DOMAIN sessions :
        sessions[id].status = "failed"
        => /\ Processing(id) = {}
           /\ sessions[id].currentStage = {}
           /\ Cardinality(ErroredStages(id)) <= 1
           /\ \A i \in ErroredStages(id) :
                /\ \A k \in 1..(i - 1) : StageStatusOf(id, k) = "completed"
                /\ \A k \in (i + 1)..StageCount(id) :
                      StageStatusOf(id, k) = "pending"
           /\ sessions[id].error # {}
           /\ \A m \in sessions[id].error : m # {}

\* A session failed in a stage after the first, on a retried attempt.
FailedInLaterStage ==
    \E id \in DOMAIN sessions :
        /\ sessions[id].status = "failed"
        /\ \E i \in ErroredStages(id) : i > 1 /\ i < StageCount(id)
        /\ attempt > 1

====
